---- MODULE Spec2Model ----
(***************************************************************************)
(* Scanner111-TS: the crash-log segmenter (lib/scan-log), the FormID       *)
(* lookup store (lib/database/formid-db.ts) and the FormID analyzer        *)
(* (lib/formid).                                                           *)
(*                                                                         *)
(* Text is a sequence of one-character strings, so that case folding and   *)
(* pattern matching are computed character by character.                   *)
(***************************************************************************)
EXTENDS Integers, Sequences, FiniteSets, TLC

VARIABLES
  connections,   \* FormIdDatabaseManager.connections: game -> Database handle (NoConn: no key)
  dbs,           \* every Database object constructed so far: handle -> [path, open]
  queryCache,    \* FormIdDatabaseManager.queryCache, in insertion order: <<[key, value]>>
  ret,           \* the last call on the manager: its arguments, its return value, its store queries
  content,       \* parseLogSegments: the log text; scanCrashLog: the text of the log file
  lines,         \* parseLogSegments: content.split(/\r?\n/)
  iLine,         \* parseLogSegments: the loop index i
  currentSegment,\* parseLogSegments: the open segment (Null: null)
  segments,      \* parseLogSegments: the segments pushed so far
  pc,            \* parseLogSegments: "idle", "start", "loop" (in the for loop), "done" (returned)
  callstackLines,\* analyzeFormIds: the call-stack lines of the log under analysis
  pluginList,    \* analyzeFormIds: the parsed plugin list of that log
  config,        \* analyzeFormIds: the analysis configuration; scanCrashLog: the ScanConfig
  disk,          \* the paths of the files that exist on disk
  patternDb      \* DatabaseManager.patternDb: the loaded pattern entries (Null: null)

storeVars == <<connections, dbs, queryCache, ret>>

segVars == <<content, lines, iLine, currentSegment, segments, pc>>

logVars == <<callstackLines, pluginList, config, patternDb>>

vars == <<connections, dbs, queryCache, ret, content, lines, iLine, currentSegment, segments, pc,
          callstackLines, pluginList, config, disk, patternDb>>

(***************************************************************************)
(* Characters and strings.                                                 *)
(***************************************************************************)
LowerChars == <<"a","b","c","d","e","f","g","h","i","j","k","l","m",
                "n","o","p","q","r","s","t","u","v","w","x","y","z">>

UpperChars == <<"A","B","C","D","E","F","G","H","I","J","K","L","M",
                "N","O","P","Q","R","S","T","U","V","W","X","Y","Z">>

HexDigits == <<"0","1","2","3","4","5","6","7","8","9","A","B","C","D","E","F">>

\* The upper-case letter of each lower-case letter
UpperOf ==
  [ch \in {LowerChars[i] : i \in 1..Len(LowerChars)} |->
     UpperChars[CHOOSE i \in 1..Len(LowerChars) : LowerChars[i] = ch]]

\* The lower-case letter of each upper-case letter
LowerOf ==
  [ch \in {UpperChars[i] : i \in 1..Len(UpperChars)} |->
     LowerChars[CHOOSE i \in 1..Len(UpperChars) : UpperChars[i] = ch]]

\* String.prototype.toUpperCase on one character
upperChar(ch) == IF ch \in DOMAIN UpperOf THEN UpperOf[ch] ELSE ch

\* String.prototype.toLowerCase on one character
lowerChar(ch) == IF ch \in DOMAIN LowerOf THEN LowerOf[ch] ELSE ch

\* String.prototype.toUpperCase
toUpperCase(s) == [i \in 1..Len(s) |-> upperChar(s[i])]

\* String.prototype.toLowerCase
toLowerCase(s) == [i \in 1..Len(s) |-> lowerChar(s[i])]

(***************************************************************************)
(* The lookup store: FormIdDatabaseManager.                                *)
(***************************************************************************)
Games == {"fallout4", "skyrim"}

\* connections.get(game) of a game without a key
NoConn == 0

\* null / undefined
Null == [isNull |-> TRUE]

cacheMaxSize == 1000

\* Database objects constructed in one run
MaxLoads == 2

\* Plugin file names and record ids used as inputs and as store rows.
Fallout4Esm == <<"F","4",".","e","s","m">>
Fallout4EsmLower == <<"f","4",".","e","s","m">>
SomeModEsp == <<"M",".","e","s","p">>
BulkEsp == <<"B",".","e","s","p">>
Id0EAFB6 == <<"0","E","A","F","B","6">>
Id0eafb6 == <<"0","e","a","f","b","6">>
Id001234 == <<"0","0","1","2","3","4">>
IdFFFFFF == <<"F","F","F","F","F","F">>

\* The store files on disk: path -> table name -> rows (plugin, formid, entry).
\* A path outside the domain does not exist. Within one table a
\* (formid, plugin) pair is unique up to the plugin's case.
StoreFiles ==
  [ main |->
      [ Fallout4 |-> { [plugin |-> Fallout4Esm, formid |-> Id0EAFB6, entry |-> "GhoulRace"],
                       [plugin |-> Fallout4Esm, formid |-> Id001234, entry |-> "TestWeapon"],
                       [plugin |-> SomeModEsp, formid |-> Id001234, entry |-> "ModdedItem"] } ],
    local |->
      [ Fallout4 |-> { [plugin |-> Fallout4Esm, formid |-> Id0EAFB6, entry |-> "LocalGhoul"] } ],
    corrupt |-> [ sqlite_master |-> {} ] ]
  @@ ("databases/Skyrim FormIDs Main.db" :>
        [ Skyrim |-> { [plugin |-> SomeModEsp, formid |-> Id001234, entry |-> "MainItem"] } ])
  @@ ("databases/Skyrim FormIDs Local.db" :>
        [ Skyrim |-> { [plugin |-> SomeModEsp, formid |-> Id001234, entry |-> "LocalItem"] } ])

\* The files outside the databases directory: three store files and one
\* that exists but does not open
CustomFiles == {"main", "local", "corrupt", "unreadable"}

\* getTableName(game)
getTableName(game) ==
  CASE game = "fallout4" -> "Fallout4"
    [] game = "skyrim" -> "Skyrim"
    [] OTHER -> game

\* new Database(dbPath, { readonly: true }) throws when the file does not exist
\* or is not readable as a store
openThrows(dbPath) == dbPath \notin disk \/ dbPath \notin DOMAIN StoreFiles

\* db.prepare(SELECT ... FROM tableName ...) throws on a closed database and
\* on a file without the game's table
prepareThrows(db, game) ==
  \/ ~db.open
  \/ getTableName(game) \notin DOMAIN StoreFiles[db.path]

\* The rows of: SELECT plugin, formid, entry FROM tableName
\*              WHERE formid = ? AND plugin = ? COLLATE NOCASE
matchingRows(db, game, formid, plugin) ==
  { r \in StoreFiles[db.path][getTableName(game)] :
      /\ r.formid = formid
      /\ toLowerCase(r.plugin) = toLowerCase(plugin) }

\* stmt.get(formId.toUpperCase(), plugin): the row as an entry, or null
stmtGet(db, game, formId, plugin) ==
  LET rows == matchingRows(db, game, toUpperCase(formId), plugin)
  IN IF rows = {} THEN Null
     ELSE LET row == CHOOSE r \in rows : TRUE
          IN [plugin |-> row.plugin, formId |-> row.formid, entry |-> row.entry]

\* `${game}:${plugin}:${formId}`
cacheKey(game, plugin, formId) == <<game, plugin, formId>>

\* queryCache.has(key)
cacheHas(cache, key) == \E i \in 1..Len(cache) : cache[i].key = key

\* queryCache.get(key) of a key the cache has
cacheGet(cache, key) == cache[CHOOSE i \in 1..Len(cache) : cache[i].key = key].value

\* Map.prototype.set: a key the map has keeps its place
cacheSet(cache, key, value) ==
  IF cacheHas(cache, key)
  THEN [cache EXCEPT ![CHOOSE i \in 1..Len(cache) : cache[i].key = key] =
          [key |-> key, value |-> value]]
  ELSE Append(cache, [key |-> key, value |-> value])

\* addToCache evicting only once the cache holds more than cacheMaxSize entries
addToCache_lateEviction(cache, key, value) ==
  LET kept == IF Len(cache) > cacheMaxSize
              THEN SubSeq(cache, (cacheMaxSize \div 2) + 1, Len(cache))
              ELSE cache
  IN cacheSet(kept, key, value)

\* addToCache keeping the oldest half in place of the newest
addToCache_evictsNewest(cache, key, value) ==
  LET kept == IF Len(cache) >= cacheMaxSize
              THEN SubSeq(cache, 1, cacheMaxSize \div 2)
              ELSE cache
  IN cacheSet(kept, key, value)

\* addToCache(key, value)
addToCache(cache, key, value) ==
  LET kept == IF Len(cache) >= cacheMaxSize
              THEN SubSeq(cache, (cacheMaxSize \div 2) + 1, Len(cache))
              ELSE cache
  IN cacheSet(kept, key, value)

\* hasDatabase(game)
hasDatabase(game) == connections[game] # NoConn

\* connections.get(game) (NoConn: undefined)
connectionOf(game) == connections[game]

\* for (const item of items.slice(lo - 1, hi)) addToCache(item.key, item.value),
\* the list halved so that the evaluation stays shallow on long lists
RECURSIVE addAllToCache(_, _, _, _)
addAllToCache(cache, items, lo, hi) ==
  IF lo > hi THEN cache
  ELSE IF lo = hi THEN addToCache(cache, items[lo].key, items[lo].value)
  ELSE LET mid == (lo + hi) \div 2
           left == addAllToCache(cache, items, lo, mid)
       IN IF Len(left) >= 0 THEN addAllToCache(left, items, mid + 1, hi) ELSE left

\* for (const item of items.slice(lo - 1, hi)) results.set(item.key, item.value)
RECURSIVE setAll(_, _, _, _)
setAll(results, items, lo, hi) ==
  IF lo > hi THEN results
  ELSE IF lo = hi THEN cacheSet(results, items[lo].key, items[lo].value)
  ELSE LET mid == (lo + hi) \div 2
           left == setAll(results, items, lo, mid)
       IN IF Len(left) >= 0 THEN setAll(left, items, mid + 1, hi) ELSE left

\* `${query.formId}:${query.plugin}`
resultKey(query) == <<query.formId, query.plugin>>

\* [f(s[1]), ..., f(s[n])]
mapSeq(s, f(_)) == [i \in 1..Len(s) |-> f(s[i])]

(***************************************************************************)
(* loadDatabase(dbPath, game)                                              *)
(***************************************************************************)
\* loadDatabase without existing.close()
loadDatabaseFrom_leaksExisting(conns, opened, dbPath, game) ==
  IF openThrows(dbPath)
  THEN [success |-> FALSE, connections |-> conns, dbs |-> opened, throws |-> FALSE]
  ELSE [success |-> TRUE,
        connections |-> [conns EXCEPT ![game] = Len(opened) + 1],
        dbs |-> Append(opened, [path |-> dbPath, game |-> game, open |-> TRUE]),
        throws |-> FALSE]

\* What the call returns and leaves behind when the manager's connections are
\* conns and the Database objects created so far are opened. throws: an
\* error leaves the call (never: the catch block turns it into the result).
loadDatabaseFrom(conns, opened, dbPath, game) ==
  LET existing == conns[game]
      afterClose == IF existing # NoConn
                    THEN [opened EXCEPT ![existing].open = FALSE]
                    ELSE opened
  IN IF openThrows(dbPath)
     THEN [success |-> FALSE, connections |-> conns, dbs |-> afterClose, throws |-> FALSE]
     ELSE [success |-> TRUE,
           connections |-> [conns EXCEPT ![game] = Len(opened) + 1],
           dbs |-> Append(afterClose, [path |-> dbPath, game |-> game, open |-> TRUE]),
           throws |-> FALSE]

\* What the call returns and leaves behind, from the current state.
loadDatabaseOutcome(dbPath, game) == loadDatabaseFrom(connections, dbs, dbPath, game)

loadDatabase(dbPath, game) ==
  \E out \in {loadDatabaseOutcome(dbPath, game)} :
     /\ Len(dbs) < MaxLoads
     /\ connections' = out.connections
     /\ dbs' = out.dbs
     /\ ret' = [op |-> "loadDatabase", dbPath |-> dbPath, game |-> game,
                success |-> out.success, existing |-> connectionOf(game)]
     /\ UNCHANGED <<queryCache, segVars, logVars, disk>>

(***************************************************************************)
(* lookupFormId(formId, plugin, game)                                      *)
(***************************************************************************)
\* lookupFormId without its try/catch: a failing query leaves the call
lookupFormIdFrom_noCatch(conns, opened, cache, formId, plugin, game) ==
  LET db == conns[game]
      key == cacheKey(game, plugin, formId)
  IN IF db = NoConn
     THEN [result |-> Null, cache |-> cache, prepared |-> FALSE, gets |-> <<>>,
           throws |-> FALSE]
     ELSE IF cacheHas(cache, key)
     THEN [result |-> cacheGet(cache, key), cache |-> cache,
           prepared |-> FALSE, gets |-> <<>>, throws |-> FALSE]
     ELSE IF prepareThrows(opened[db], game)
     THEN [result |-> Null, cache |-> cache, prepared |-> TRUE, gets |-> <<>>,
           throws |-> TRUE]
     ELSE LET row == stmtGet(opened[db], game, formId, plugin)
          IN [result |-> row, cache |-> addToCache(cache, key, row),
              prepared |-> TRUE,
              gets |-> <<[db |-> db, formId |-> toUpperCase(formId), plugin |-> plugin]>>,
              throws |-> FALSE]

\* lookupFormId without addToCache(cacheKey, null) for a pair the store lacks
lookupFormIdFrom_cachesFoundOnly(conns, opened, cache, formId, plugin, game) ==
  LET db == conns[game]
      key == cacheKey(game, plugin, formId)
  IN IF db = NoConn
     THEN [result |-> Null, cache |-> cache, prepared |-> FALSE, gets |-> <<>>,
           throws |-> FALSE]
     ELSE IF cacheHas(cache, key)
     THEN [result |-> cacheGet(cache, key), cache |-> cache,
           prepared |-> FALSE, gets |-> <<>>, throws |-> FALSE]
     ELSE IF prepareThrows(opened[db], game)
     THEN [result |-> Null, cache |-> cache, prepared |-> TRUE, gets |-> <<>>,
           throws |-> FALSE]
     ELSE LET row == stmtGet(opened[db], game, formId, plugin)
          IN [result |-> row,
              cache |-> IF row # Null THEN addToCache(cache, key, row) ELSE cache,
              prepared |-> TRUE,
              gets |-> <<[db |-> db, formId |-> toUpperCase(formId), plugin |-> plugin]>>,
              throws |-> FALSE]

\* lookupFormId caching not found for a game without a connection
lookupFormIdFrom_cachesUnregistered(conns, opened, cache, formId, plugin, game) ==
  LET db == conns[game]
      key == cacheKey(game, plugin, formId)
  IN IF db = NoConn
     THEN [result |-> Null, cache |-> addToCache(cache, key, Null), prepared |-> FALSE,
           gets |-> <<>>, throws |-> FALSE]
     ELSE IF cacheHas(cache, key)
     THEN [result |-> cacheGet(cache, key), cache |-> cache,
           prepared |-> FALSE, gets |-> <<>>, throws |-> FALSE]
     ELSE IF prepareThrows(opened[db], game)
     THEN [result |-> Null, cache |-> cache, prepared |-> TRUE, gets |-> <<>>,
           throws |-> FALSE]
     ELSE LET row == stmtGet(opened[db], game, formId, plugin)
          IN [result |-> row, cache |-> addToCache(cache, key, row),
              prepared |-> TRUE,
              gets |-> <<[db |-> db, formId |-> toUpperCase(formId), plugin |-> plugin]>>,
              throws |-> FALSE]

\* The returned entry (Null: undefined), the cache the call leaves, whether it
\* prepared a statement, the stmt.get calls it made, and whether an error
\* leaves the call (never: the catch block returns undefined).
lookupFormIdFrom(conns, opened, cache, formId, plugin, game) ==
  LET db == conns[game]
      key == cacheKey(game, plugin, formId)
  IN IF db = NoConn
     THEN [result |-> Null, cache |-> cache, prepared |-> FALSE, gets |-> <<>>,
           throws |-> FALSE]
     ELSE IF cacheHas(cache, key)
     THEN [result |-> cacheGet(cache, key), cache |-> cache,
           prepared |-> FALSE, gets |-> <<>>, throws |-> FALSE]
     ELSE IF prepareThrows(opened[db], game)
     THEN [result |-> Null, cache |-> cache, prepared |-> TRUE, gets |-> <<>>,
           throws |-> FALSE]
     ELSE LET row == stmtGet(opened[db], game, formId, plugin)
          IN [result |-> row, cache |-> addToCache(cache, key, row),
              prepared |-> TRUE,
              gets |-> <<[db |-> db, formId |-> toUpperCase(formId), plugin |-> plugin]>>,
              throws |-> FALSE]

\* The same, from the current state.
lookupFormIdOutcome(formId, plugin, game) ==
  lookupFormIdFrom(connections, dbs, queryCache, formId, plugin, game)

lookupFormId(formId, plugin, game) ==
  \E out \in {lookupFormIdOutcome(formId, plugin, game)} :
     /\ queryCache' = out.cache
     /\ ret' = [op |-> "lookupFormId", formId |-> formId, plugin |-> plugin,
                game |-> game, result |-> out.result, prepared |-> out.prepared,
                gets |-> out.gets, sizeBefore |-> Len(queryCache)]
     /\ UNCHANGED <<connections, dbs, segVars, logVars, disk>>

(***************************************************************************)
(* lookupFormIdBatch(queries, game)                                        *)
(***************************************************************************)
\* The first loop without its if (cached) test: cached nulls reach the results
cachedResults_keepsNull(queries, game) ==
  LET keyOf(q) == cacheKey(game, q.plugin, q.formId)
      isCached(q) == cacheHas(queryCache, keyOf(q))
      hits == SelectSeq(queries, isCached)
  IN setAll(<<>>,
            mapSeq(hits, LAMBDA q : [key |-> resultKey(q),
                                     value |-> cacheGet(queryCache, keyOf(q))]),
            1, Len(hits))

\* The first loop: results.set for every query cached with an entry
cachedResults(queries, game) ==
  LET keyOf(q) == cacheKey(game, q.plugin, q.formId)
      isHit(q) == /\ cacheHas(queryCache, keyOf(q))
                  /\ cacheGet(queryCache, keyOf(q)) # Null
      hits == SelectSeq(queries, isHit)
  IN setAll(<<>>,
            mapSeq(hits, LAMBDA q : [key |-> resultKey(q),
                                     value |-> cacheGet(queryCache, keyOf(q))]),
            1, Len(hits))

\* The first loop: uncached.push for every query the cache does not have
uncachedQueries(queries, game) ==
  LET isUncached(q) == ~cacheHas(queryCache, cacheKey(game, q.plugin, q.formId))
  IN SelectSeq(queries, isUncached)

\* The returned map (in insertion order), the cache the call leaves, whether
\* it prepared a statement, and the stmt.get calls it made.
lookupFormIdBatchOutcome(queries, game) ==
  LET db == connectionOf(game)
      keyOf(q) == cacheKey(game, q.plugin, q.formId)
      fromCache == cachedResults(queries, game)
      uncached == uncachedQueries(queries, game)
      rows == mapSeq(uncached, LAMBDA q : [query |-> q,
                                           row |-> stmtGet(dbs[db], game, q.formId, q.plugin)])
      isFound(r) == r.row # Null
      found == SelectSeq(rows, isFound)
  IN IF db = NoConn \/ Len(queries) = 0
     THEN [result |-> <<>>, cache |-> queryCache, prepared |-> FALSE, gets |-> <<>>]
     ELSE IF Len(uncached) = 0
     THEN [result |-> fromCache, cache |-> queryCache, prepared |-> FALSE, gets |-> <<>>]
     ELSE IF prepareThrows(dbs[db], game)
     THEN [result |-> fromCache, cache |-> queryCache, prepared |-> TRUE, gets |-> <<>>]
     ELSE [result |-> setAll(fromCache,
                        mapSeq(found, LAMBDA r : [key |-> resultKey(r.query),
                                                  value |-> r.row]),
                        1, Len(found)),
           cache |-> addAllToCache(queryCache,
                       mapSeq(rows, LAMBDA r : [key |-> keyOf(r.query), value |-> r.row]),
                       1, Len(rows)),
           prepared |-> TRUE,
           gets |-> mapSeq(uncached, LAMBDA q : [db |-> db,
                                                 formId |-> toUpperCase(q.formId),
                                                 plugin |-> q.plugin])]

lookupFormIdBatch(queries, game) ==
  \E out \in {lookupFormIdBatchOutcome(queries, game)} :
     /\ queryCache' = out.cache
     /\ ret' = [op |-> "lookupFormIdBatch", queries |-> queries, game |-> game,
                result |-> out.result, prepared |-> out.prepared,
                gets |-> out.gets, sizeBefore |-> Len(queryCache)]
     /\ UNCHANGED <<connections, dbs, segVars, logVars, disk>>

(***************************************************************************)
(* clearCache()                                                            *)
(***************************************************************************)
\* clearCache that also forgets the connections
clearCache_dropsConnections ==
  /\ queryCache' = <<>>
  /\ connections' = [g \in Games |-> NoConn]
  /\ ret' = [op |-> "clearCache", sizeBefore |-> Len(queryCache)]
  /\ UNCHANGED <<dbs, segVars, logVars, disk>>

clearCache ==
  /\ queryCache' = <<>>
  /\ ret' = [op |-> "clearCache", sizeBefore |-> Len(queryCache)]
  /\ UNCHANGED <<connections, dbs, segVars, logVars, disk>>

(***************************************************************************)
(* close()                                                                 *)
(***************************************************************************)
\* close without queryCache.clear()
close_keepsCache ==
  /\ dbs' = [h \in DOMAIN dbs |->
               IF \E g \in Games : connections[g] = h
               THEN [dbs[h] EXCEPT !.open = FALSE]
               ELSE dbs[h]]
  /\ connections' = [g \in Games |-> NoConn]
  /\ ret' = [op |-> "close", sizeBefore |-> Len(queryCache),
             wasOpen |-> {h \in DOMAIN dbs : dbs[h].open}]
  /\ UNCHANGED <<queryCache, segVars, logVars, disk>>

close ==
  /\ dbs' = [h \in DOMAIN dbs |->
               IF \E g \in Games : connections[g] = h
               THEN [dbs[h] EXCEPT !.open = FALSE]
               ELSE dbs[h]]
  /\ connections' = [g \in Games |-> NoConn]
  /\ queryCache' = <<>>
  /\ ret' = [op |-> "close", sizeBefore |-> Len(queryCache),
             wasOpen |-> {h \in DOMAIN dbs : dbs[h].open}]
  /\ UNCHANGED <<segVars, logVars, disk>>

(***************************************************************************)
(* The store driven by a caller.                                           *)
(***************************************************************************)
QExact == [formId |-> Id0EAFB6, plugin |-> Fallout4Esm]
QLower == [formId |-> Id0eafb6, plugin |-> Fallout4EsmLower]
QAbsent == [formId |-> IdFFFFFF, plugin |-> Fallout4Esm]
QMod == [formId |-> Id001234, plugin |-> SomeModEsp]

\* loadDatabase calls: <<dbPath, game>>
LoadInputs ==
  ({"main", "local", "missing"} \X {"fallout4"}) \cup {<<"main", "skyrim">>}

\* lookupFormId calls: <<query, game>>
LookupInputs ==
  ({QExact, QLower, QAbsent} \X {"fallout4"}) \cup {<<QExact, "skyrim">>}

\* lookupFormIdBatch calls: <<queries, game>>
BatchInputs ==
  ({ <<>>, <<QExact, QAbsent>>, <<QMod, QMod>> } \X {"fallout4"})
    \cup {<<(<<QExact>>), "skyrim">>}

\* The manager as constructed
storeInit ==
  /\ connections = [g \in Games |-> NoConn]
  /\ dbs = <<>>
  /\ queryCache = <<>>
  /\ ret = [op |-> "new"]
  /\ disk = CustomFiles

\* No parseLogSegments call in progress
segIdle ==
  /\ content = <<>>
  /\ lines = <<>>
  /\ iLine = 0
  /\ currentSegment = Null
  /\ segments = <<>>
  /\ pc = "idle"

\* No log under analysis
logIdle ==
  /\ callstackLines = <<>>
  /\ pluginList = <<>>
  /\ config = Null
  /\ patternDb = Null

Init == storeInit /\ segIdle /\ logIdle

Next ==
  \/ \E in \in LoadInputs : loadDatabase(in[1], in[2])
  \/ \E in \in LookupInputs : lookupFormId(in[1].formId, in[1].plugin, in[2])
  \/ \E in \in BatchInputs : lookupFormIdBatch(in[1], in[2])
  \/ clearCache
  \/ close

Spec == Init /\ [][Next]_vars

(***************************************************************************)
(* The store under load: one game, one store file, and batches long        *)
(* enough to fill the cache.                                               *)
(***************************************************************************)
\* The 6-hex-digit record id of number n
hex6(n) == [i \in 1..6 |-> HexDigits[((n \div (16 ^ (6 - i))) % 16) + 1]]

\* n queries for distinct record ids of one plugin, none of them in a store
BulkQueries(n) == [i \in 1..n |-> [formId |-> hex6(i), plugin |-> BulkEsp]]

\* Lengths of the long batches: two short of a full cache, and one over
BulkSizes == {cacheMaxSize - 2, cacheMaxSize + 1}

NextCache ==
  \/ loadDatabase("main", "fallout4")
  \/ \E q \in {QExact, QLower, QAbsent} : lookupFormId(q.formId, q.plugin, "fallout4")
  \/ lookupFormIdBatch(<<QMod, QMod>>, "fallout4")
  \/ /\ queryCache = <<>>
     /\ \E n \in BulkSizes : lookupFormIdBatch(BulkQueries(n), "fallout4")
  \/ clearCache
  \/ close

SpecCache == Init /\ [][NextCache]_vars

(***************************************************************************)
(* Properties of the lookup store.                                         *)
(***************************************************************************)
\* The game has a registered connection and that Database is open
hasOpenConnection(game) ==
  connectionOf(game) # NoConn /\ dbs[connectionOf(game)].open

\* The description a returned entry carries, as a set (empty: not found)
descriptionOf(entry) == IF entry = Null THEN {} ELSE {entry.entry}

\* The description the store file behind handle h holds for the pair in the
\* game's table, the module name compared without case and the record id in
\* upper case, as a set (empty: it holds none)
storeDescription(h, game, formId, plugin) ==
  LET file == StoreFiles[dbs[h].path]
      table == getTableName(game)
      held == IF table \in DOMAIN file
              THEN { r \in file[table] :
                       /\ r.formid = toUpperCase(formId)
                       /\ toLowerCase(r.plugin) = toLowerCase(plugin) }
              ELSE {}
  IN {r.entry : r \in held}

\* C2: whenever the most recent load for the game succeeded (its connection
\* is registered and open), a lookup returns the description the loaded store
\* holds for the pair, or not found when it holds none, whatever came before,
\* and the same lookup repeated returns the same result.
C2_LookupReturnsLoadedStore ==
  (ret.op = "lookupFormId" /\ hasOpenConnection(ret.game)) =>
    /\ descriptionOf(ret.result) =
         storeDescription(connectionOf(ret.game), ret.game, ret.formId, ret.plugin)
    /\ lookupFormIdOutcome(ret.formId, ret.plugin, ret.game).result = ret.result

\* The (key, entry) pairs of a returned batch map
resultPairs(result) == { <<result[i].key, result[i].value>> : i \in 1..Len(result) }

\* C3: in every store state, a batch lookup returns exactly the queries that
\* a single lookup issued in that state resolves, each with the entry the
\* single lookup returns; no other query is in the result.
C3_BatchEqualsSingles ==
  \A in \in BatchInputs :
    LET queries == in[1]
        game == in[2]
        single(q) == lookupFormIdOutcome(q.formId, q.plugin, game).result
    IN resultPairs(lookupFormIdBatchOutcome(queries, game).result) =
         { <<resultKey(queries[i]), single(queries[i])>> :
             i \in { j \in 1..Len(queries) : single(queries[j]) # Null } }

\* A batch ran that hit the store and resolved some but not all of its queries
C3_Witness ==
  /\ ret.op = "lookupFormIdBatch"
  /\ ret.gets # <<>>
  /\ Len(ret.result) > 0
  /\ Len(ret.result) < Len(ret.queries)

\* C6: a successful load registers the newly constructed Database for the
\* game, leaves the Database registered before (if any) closed, leaves exactly
\* one open Database of that game, and leaves the registrations and Databases
\* of every other game as they were.
C6_LoadReplacesConnection ==
  \A in \in LoadInputs :
    LET game == in[2]
        out == loadDatabaseOutcome(in[1], game)
        fresh == out.connections[game]
    IN out.success =>
         /\ fresh \notin DOMAIN dbs
         /\ fresh \in DOMAIN out.dbs
         /\ out.dbs[fresh] = [path |-> in[1], game |-> game, open |-> TRUE]
         /\ connectionOf(game) # NoConn => ~out.dbs[connectionOf(game)].open
         /\ { h \in DOMAIN out.dbs : out.dbs[h].game = game /\ out.dbs[h].open } = {fresh}
         /\ \A other \in Games \ {game} :
              /\ out.connections[other] = connections[other]
              /\ \A h \in DOMAIN dbs : dbs[h].game = other => out.dbs[h] = dbs[h]

\* A load succeeded over a connection that was registered for the game
C6_Witness ==
  /\ ret.op = "loadDatabase"
  /\ ret.success
  /\ ret.existing # NoConn
  /\ connectionOf(ret.game) = Len(dbs)

\* C7: for a game with no open connection a lookup returns not found without
\* preparing or running a query and without changing the cache, and a batch
\* lookup returns an empty result.
C7_NoOpenConnectionNotFound ==
  /\ \A in \in LookupInputs :
       LET out == lookupFormIdOutcome(in[1].formId, in[1].plugin, in[2])
       IN ~hasOpenConnection(in[2]) =>
            /\ out.result = Null
            /\ ~out.prepared
            /\ out.gets = <<>>
            /\ out.cache = queryCache
  /\ \A in \in BatchInputs :
       ~hasOpenConnection(in[2]) =>
         lookupFormIdBatchOutcome(in[1], in[2]).result = <<>>

\* C8: after close() every Database is closed, no game has a registered
\* connection and the cache is empty.
C8_CloseClosesAll ==
  ret.op = "close" =>
    /\ \A h \in DOMAIN dbs : ~dbs[h].open
    /\ \A g \in Games : ~hasDatabase(g)
    /\ queryCache = <<>>

\* close() ran with Databases open for both games and entries in the cache
C8_Witness ==
  /\ ret.op = "close"
  /\ Cardinality(ret.wasOpen) = Cardinality(Games)
  /\ ret.sizeBefore > 0

\* Every lookup on an open connection would now prepare a query and return
\* what the store holds
requeriesStore ==
  \A in \in LookupInputs :
    LET out == lookupFormIdOutcome(in[1].formId, in[1].plugin, in[2])
    IN hasOpenConnection(in[2]) =>
         /\ out.prepared
         /\ descriptionOf(out.result) =
              storeDescription(connectionOf(in[2]), in[2], in[1].formId, in[1].plugin)

\* C9: clearCache() leaves the cache empty and the connections and their
\* Databases as they were, and the next lookup of any pair on an open
\* connection queries the store again and returns the store's answer.
C9_ClearCacheKeepsConnections ==
  /\ [](ret.op = "clearCache" => (queryCache = <<>> /\ requeriesStore))
  /\ [][ret'.op = "clearCache" => (connections' = connections /\ dbs' = dbs)]_vars

\* clearCache() ran on a cache with entries while a connection was open
C9_Witness ==
  /\ ret.op = "clearCache"
  /\ ret.sizeBefore > 0
  /\ \E g \in Games : hasOpenConnection(g)

(***************************************************************************)
(* Properties of the cache under load (SpecCache).                         *)
(***************************************************************************)
\* The keys of a cache, oldest first
cacheKeys(cache) == [i \in 1..Len(cache) |-> cache[i].key]

\* C4: a lookup that writes its result while the cache holds cacheMaxSize
\* entries removes exactly the oldest half and leaves the newer half followed
\* by the new entry; a lookup that writes while the cache holds fewer entries
\* removes nothing and appends the new entry.
C4_EvictsOldestHalf ==
  [][(ret'.op = "lookupFormId" /\ ret'.gets # <<>>) =>
       LET new == [key |-> cacheKey(ret'.game, ret'.plugin, ret'.formId),
                   value |-> ret'.result]
       IN IF Len(queryCache) = cacheMaxSize
          THEN /\ queryCache' =
                    SubSeq(queryCache, (cacheMaxSize \div 2) + 1, cacheMaxSize) \o <<new>>
               /\ Len(queryCache') = (cacheMaxSize \div 2) + 1
          ELSE /\ Len(queryCache) < cacheMaxSize
               /\ queryCache' = Append(queryCache, new)]_vars

\* A lookup wrote its result into a full cache
C4_Witness ==
  /\ ret.op = "lookupFormId"
  /\ ret.gets # <<>>
  /\ ret.sizeBefore = cacheMaxSize

\* C5: the query cache never holds more than cacheMaxSize entries.
C5_CacheBounded == Len(queryCache) <= cacheMaxSize

\* The cache is full
C5_Witness == Len(queryCache) = cacheMaxSize

\* ---------------------------------------------------------------------------
\* The crash-log segmenter: parseLogSegments
\* ---------------------------------------------------------------------------

\* Lines with an index below this are header lines unless they carry a marker
HeaderLines == 20

\* The longest run of lines after the padding of a generated document
MaxTail == 2

LF == <<"\n">>
CRLF == <<"\r", "\n">>

\* String.prototype.includes
includes(haystack, needle) ==
  \E k \in 0..(Len(haystack) - Len(needle)) : SubSeq(haystack, k + 1, k + Len(needle)) = needle

WhiteSpace == {" ", "\t"}

\* /^[re][abcd]x\s*:/i.test(line)
registerPattern(line) ==
  /\ Len(line) >= 4
  /\ lowerChar(line[1]) \in {"r", "e"}
  /\ lowerChar(line[2]) \in {"a", "b", "c", "d"}
  /\ lowerChar(line[3]) = "x"
  /\ \E k \in 4..Len(line) :
       /\ line[k] = ":"
       /\ \A m \in 4..(k - 1) : line[m] \in WhiteSpace

\* The segment type the loop body assigns to line idx
segmentTypeOf(line, idx) ==
  LET lineLower == toLowerCase(line) IN
  IF includes(lineLower, <<"c","a","l","l"," ","s","t","a","c","k">>)
     \/ includes(lineLower, <<"c","a","l","l","s","t","a","c","k">>)
  THEN "callstack"
  ELSE IF includes(lineLower, <<"r","e","g","i","s","t","e","r">>) \/ registerPattern(line)
  THEN "registers"
  ELSE IF includes(lineLower, <<"m","o","d","u","l","e","s",":">>)
          \/ includes(lineLower, <<"l","o","a","d","e","d"," ","m","o","d","u","l","e","s">>)
  THEN "modules"
  ELSE IF includes(lineLower, <<"p","l","u","g","i","n","s",":">>)
          \/ includes(lineLower, <<"p","l","u","g","i","n"," ","l","i","s","t">>)
  THEN "plugins"
  ELSE IF idx < HeaderLines THEN "header"
  ELSE "unknown"

\* content.split(/\r?\n/): the text between line feeds, without the carriage
\* return that precedes a line feed; a text without line feed is one line
split(text) ==
  LET feeds == {k \in 1..Len(text) : text[k] = "\n"}
      n == Cardinality(feeds) + 1
      feedAt(j) == IF j = 0 THEN 0
                   ELSE IF j = n THEN Len(text) + 1
                   ELSE CHOOSE q \in feeds : Cardinality({r \in feeds : r <= q}) = j
      piece(j) == LET a == feedAt(j - 1) + 1
                      b == feedAt(j) - 1
                      e == IF j < n /\ b >= a /\ text[b] = "\r" THEN b - 1 ELSE b
                  IN SubSeq(text, a, e)
  IN [j \in 1..n |-> piece(j)]

\* The "handle segment transitions" step with every appended line lost
segmentTransition_losesAppended(cur, segs, line, idx) ==
  LET segmentType == segmentTypeOf(line, idx) IN
  IF segmentType # "unknown" /\ (cur = Null \/ segmentType # cur.type)
  THEN [segments |-> IF cur # Null THEN Append(segs, [cur EXCEPT !.endLine = idx - 1]) ELSE segs,
        currentSegment |-> [type |-> segmentType, startLine |-> idx, endLine |-> idx,
                            lines |-> <<line>>]]
  ELSE [segments |-> segs, currentSegment |-> cur]

\* segmentTransition without the comparison with the open segment's type
segmentTransition_ignoresOpenType(cur, segs, line, idx) ==
  LET segmentType == segmentTypeOf(line, idx) IN
  IF segmentType # "unknown"
  THEN [segments |-> IF cur # Null THEN Append(segs, [cur EXCEPT !.endLine = idx - 1]) ELSE segs,
        currentSegment |-> [type |-> segmentType, startLine |-> idx, endLine |-> idx,
                            lines |-> <<line>>]]
  ELSE IF cur # Null
  THEN [segments |-> segs,
        currentSegment |-> [cur EXCEPT !.lines = Append(cur.lines, line), !.endLine = idx]]
  ELSE [segments |-> segs, currentSegment |-> cur]

\* segmentTransition without the test for the unknown type
segmentTransition_startsOnUnknown(cur, segs, line, idx) ==
  LET segmentType == segmentTypeOf(line, idx) IN
  IF cur = Null \/ segmentType # cur.type
  THEN [segments |-> IF cur # Null THEN Append(segs, [cur EXCEPT !.endLine = idx - 1]) ELSE segs,
        currentSegment |-> [type |-> segmentType, startLine |-> idx, endLine |-> idx,
                            lines |-> <<line>>]]
  ELSE [segments |-> segs,
        currentSegment |-> [cur EXCEPT !.lines = Append(cur.lines, line), !.endLine = idx]]

\* The "handle segment transitions" step of the loop body for line idx
segmentTransition(cur, segs, line, idx) ==
  LET segmentType == segmentTypeOf(line, idx) IN
  IF segmentType # "unknown" /\ (cur = Null \/ segmentType # cur.type)
  THEN [segments |-> IF cur # Null THEN Append(segs, [cur EXCEPT !.endLine = idx - 1]) ELSE segs,
        currentSegment |-> [type |-> segmentType, startLine |-> idx, endLine |-> idx,
                            lines |-> <<line>>]]
  ELSE IF cur # Null
  THEN [segments |-> segs,
        currentSegment |-> [cur EXCEPT !.lines = Append(cur.lines, line), !.endLine = idx]]
  ELSE [segments |-> segs, currentSegment |-> cur]

\* parseLogSegments entry: split the content into lines
splitContent ==
  /\ pc = "start"
  /\ lines' = split(content)
  /\ iLine' = 0
  /\ pc' = "loop"
  /\ UNCHANGED <<content, currentSegment, segments, storeVars, logVars, disk>>

\* One iteration of the for loop
segmentLine ==
  /\ pc = "loop"
  /\ iLine < Len(lines)
  /\ LET out == segmentTransition(currentSegment, segments, lines[iLine + 1], iLine) IN
       /\ currentSegment' = out.currentSegment
       /\ segments' = out.segments
  /\ iLine' = iLine + 1
  /\ UNCHANGED <<content, lines, pc, storeVars, logVars, disk>>

\* Loop exit: push the final segment and return
pushFinal ==
  /\ pc = "loop"
  /\ iLine >= Len(lines)
  /\ segments' = IF currentSegment # Null THEN Append(segments, currentSegment) ELSE segments
  /\ pc' = "done"
  /\ UNCHANGED <<content, lines, iLine, currentSegment, storeVars, logVars, disk>>

\* The value of totalLines in the returned structure
totalLines == Len(lines)

\* Lines the generated documents are made of
TextLine == <<"o", "k">>
CallStackLine == <<"C","a","l","l"," ","S","t","a","c","k">>
RegisterLine == <<"R","A","X"," ",":","0">>
ModulesLine == <<"m","o","d","u","l","e","s",":">>
PluginsLine == <<"P","L","U","G","I","N","S",":">>
MixedLine == <<"p","l","u","g","i","n","s",":"," ","r","e","g","i","s","t","e","r">>

SegLines == {TextLine, CallStackLine, RegisterLine, ModulesLine, PluginsLine, MixedLine}

RECURSIVE joinLines(_, _)
\* The lines joined by a line terminator
joinLines(ls, terminator) ==
  IF ls = <<>> THEN <<>>
  ELSE IF Len(ls) = 1 THEN ls[1]
  ELSE ls[1] \o terminator \o joinLines(Tail(ls), terminator)

\* Generated documents: at most one leading line, a run of plain lines that
\* ends below, at or past the header threshold, and a short run of any lines
Documents ==
  { head \o [k \in 1..pad |-> TextLine] \o tail :
      head \in {<<>>} \cup {<<l>> : l \in SegLines},
      pad \in {0, HeaderLines - 1, HeaderLines},
      tail \in UNION {[1..n -> SegLines] : n \in 0..MaxTail} }

\* Log texts: the documents with LF terminators, and with CRLF terminators
\* and a terminator after the last line
Contents ==
  {joinLines(d, LF) : d \in Documents} \cup {joinLines(d, CRLF) \o CRLF : d \in Documents}

InitSeg ==
  /\ storeInit
  /\ logIdle
  /\ content \in Contents
  /\ lines = <<>>
  /\ iLine = 0
  /\ currentSegment = Null
  /\ segments = <<>>
  /\ pc = "start"

NextSeg == splitContent \/ segmentLine \/ pushFinal

SpecSeg == InitSeg /\ [][NextSeg]_vars

\* C1: when parseLogSegments returns, its segments partition the document's
\* lines: the first segment starts at line 0, each following segment starts at
\* the previous segment's endLine + 1, the last segment ends at totalLines - 1,
\* and each segment's lines are the document lines startLine..endLine in order.
C1_SegmentsPartitionLines ==
  pc = "done" =>
    /\ Len(segments) >= 1
    /\ segments[1].startLine = 0
    /\ \A k \in 2..Len(segments) : segments[k].startLine = segments[k - 1].endLine + 1
    /\ segments[Len(segments)].endLine = totalLines - 1
    /\ \A k \in 1..Len(segments) :
         /\ segments[k].startLine <= segments[k].endLine
         /\ segments[k].lines = SubSeq(lines, segments[k].startLine + 1, segments[k].endLine + 1)

\* A returned parse of a document longer than the header threshold with
\* several segments, one of which ends in lines appended past the threshold
C1_Witness ==
  /\ pc = "done"
  /\ totalLines > HeaderLines + 1
  /\ Len(segments) >= 3
  /\ \E k \in 1..Len(segments) :
       /\ segments[k].startLine >= HeaderLines
       /\ segments[k].endLine > segments[k].startLine

\* The loop body is about to process line iLine with a segment open
lineWithOpenSegment == pc = "loop" /\ iLine < Len(lines) /\ currentSegment # Null

\* A new segment starts at line iLine: the open segment is closed at
\* iLine - 1 and pushed, and the line opens a segment of the given type
startsSegment(type) ==
  /\ segments' = Append(segments, [currentSegment EXCEPT !.endLine = iLine - 1])
  /\ currentSegment' = [type |-> type, startLine |-> iLine, endLine |-> iLine,
                        lines |-> <<lines[iLine + 1]>>]

\* Line iLine is appended to the open segment, which keeps its type and start
appendsLine ==
  /\ segments' = segments
  /\ currentSegment'.type = currentSegment.type
  /\ currentSegment'.startLine = currentSegment.startLine
  /\ currentSegment'.endLine = iLine
  /\ currentSegment'.lines = Append(currentSegment.lines, lines[iLine + 1])

\* The segments in order, the open one last while the loop runs
allSegments ==
  IF pc = "loop" /\ currentSegment # Null THEN Append(segments, currentSegment) ELSE segments

\* C22: while parseLogSegments processes line i with a segment of type T
\* open, a new segment starts at line i if and only if the line's
\* classification is not unknown and differs from T; otherwise the line is
\* appended to the open segment and takes its type.  Consequently no segment
\* has type unknown and no two consecutive segments have the same type.
C22_NewSegmentOnTypeChange ==
  /\ [][lineWithOpenSegment =>
          LET classification == segmentTypeOf(lines[iLine + 1], iLine) IN
          IF classification # "unknown" /\ classification # currentSegment.type
          THEN startsSegment(classification)
          ELSE appendsLine]_vars
  /\ [](\A k \in 1..Len(allSegments) :
          /\ allSegments[k].type # "unknown"
          /\ k > 1 => allSegments[k].type # allSegments[k - 1].type)

\* The loop is past the header threshold with three segments, the open one
\* holding an appended line of unknown classification
C22_Witness ==
  /\ pc = "loop"
  /\ iLine > HeaderLines
  /\ Len(allSegments) >= 3
  /\ currentSegment.endLine > currentSegment.startLine
  /\ segmentTypeOf(lines[iLine], iLine - 1) = "unknown"

\* The marker pattern the line matches ("unknown": none), whatever its index
markerOf(line) == segmentTypeOf(line, HeaderLines)

\* parseLogSegments has returned on a document that reaches past the header
\* threshold and whose lines from index HeaderLines on match no marker pattern
unmarkedTail ==
  /\ pc = "done"
  /\ totalLines > HeaderLines
  /\ \A k \in (HeaderLines + 1)..totalLines : markerOf(lines[k]) = "unknown"

\* The marker lines below the header threshold (1-based positions)
markersBefore == {k \in 1..HeaderLines : markerOf(lines[k]) # "unknown"}

\* The lines from index HeaderLines on are all in the last segment, and no
\* segment starts at or after that index
tailInOneSegment ==
  /\ \A k \in 1..Len(segments) : segments[k].startLine < HeaderLines
  /\ segments[Len(segments)].endLine = totalLines - 1

\* C23 as stated: the lines from index 20 on of such a document are in one
\* single segment whose type is that of the last explicit marker line seen
\* before them, and no new segment starts at or after line 20.
C23_AsStated ==
  unmarkedTail =>
    /\ tailInOneSegment
    /\ markersBefore # {} =>
         segments[Len(segments)].type =
           markerOf(lines[CHOOSE k \in markersBefore : \A j \in markersBefore : j <= k])

\* C23: the lines from index 20 on of such a document are in one single
\* segment, and no new segment starts at or after line 20; the segment's type
\* is that of the last explicit marker line when that line is line 19, the
\* last one below the threshold, and header otherwise.
C23_TailJoinsOpenSegment ==
  unmarkedTail =>
    /\ tailInOneSegment
    /\ segments[Len(segments)].type =
         IF markerOf(lines[HeaderLines]) # "unknown" THEN markerOf(lines[HeaderLines])
         ELSE "header"

\* A returned parse whose unmarked tail of several lines joined a header
\* segment that follows a marker line
C23_Witness ==
  /\ unmarkedTail
  /\ markersBefore # {}
  /\ totalLines > HeaderLines + 1
  /\ segments[Len(segments)].type = "header"
  /\ segments[Len(segments)].endLine = totalLines - 1

\* ---------------------------------------------------------------------------
\* The identifier extractor and the index resolver
\* ---------------------------------------------------------------------------

Digits == {"0", "1", "2", "3", "4", "5", "6", "7", "8", "9"}

\* \w
WordChars ==
  Digits \cup {"_"} \cup {LowerChars[k] : k \in 1..Len(LowerChars)}
         \cup {UpperChars[k] : k \in 1..Len(UpperChars)}

\* The value of each hexadecimal digit, upper case
HexValueOf ==
  [ch \in {HexDigits[k] : k \in 1..Len(HexDigits)} |->
     (CHOOSE k \in 1..Len(HexDigits) : HexDigits[k] = ch) - 1]

\* [0-9A-Fa-f]
isHexChar(ch) == upperChar(ch) \in DOMAIN HexValueOf

\* The value of one hexadecimal digit
hexValue(ch) == HexValueOf[upperChar(ch)]

\* FORMID_PATTERN without its final \b: the first eight digits of a longer
\* run match
matchFormIdAt_noBoundary(line, p) ==
  LET n == Len(line)
      literal(q, w) == /\ q + Len(w) - 1 <= n
                       /\ \A m \in 1..Len(w) : lowerChar(line[q + m - 1]) = w[m]
      skipSpace(q) == CHOOSE r \in q..(n + 1) :
                        /\ r = n + 1 \/ line[r] \notin WhiteSpace
                        /\ \A m \in q..(r - 1) : line[m] \in WhiteSpace
      afterColon(afterId) == IF afterId <= n /\ line[afterId] = ":" THEN afterId + 1 ELSE afterId
      hex(hexAt) ==
        IF /\ hexAt + 7 <= n
           /\ \A m \in hexAt..(hexAt + 7) : isHexChar(line[m])
        THEN [group |-> SubSeq(line, hexAt, hexAt + 7), next |-> hexAt + 8]
        ELSE Null
      zeroX(zeroAt) == IF literal(zeroAt, <<"0","x">>) THEN hex(zeroAt + 2) ELSE Null
      id(idAt) == IF literal(idAt, <<"i","d">>)
                  THEN zeroX(skipSpace(afterColon(idAt + 2)))
                  ELSE Null
  IN IF literal(p, <<"f","o","r","m">>) THEN id(skipSpace(p + 4)) ELSE Null

\* One attempt of FORMID_PATTERN at position p (from 1) of the line:
\* Form \s* ID :? \s* 0x ([0-9A-Fa-f]{8}) \b, letters compared without case.
\* Null: no match here; else the captured group and the position after it.
matchFormIdAt(line, p) ==
  LET n == Len(line)
      literal(q, w) == /\ q + Len(w) - 1 <= n
                       /\ \A m \in 1..Len(w) : lowerChar(line[q + m - 1]) = w[m]
      skipSpace(q) == CHOOSE r \in q..(n + 1) :
                        /\ r = n + 1 \/ line[r] \notin WhiteSpace
                        /\ \A m \in q..(r - 1) : line[m] \in WhiteSpace
      afterColon(afterId) == IF afterId <= n /\ line[afterId] = ":" THEN afterId + 1 ELSE afterId
      hex(hexAt) ==
        IF /\ hexAt + 7 <= n
           /\ \A m \in hexAt..(hexAt + 7) : isHexChar(line[m])
           /\ (hexAt + 8 > n \/ line[hexAt + 8] \notin WordChars)
        THEN [group |-> SubSeq(line, hexAt, hexAt + 7), next |-> hexAt + 8]
        ELSE Null
      zeroX(zeroAt) == IF literal(zeroAt, <<"0","x">>) THEN hex(zeroAt + 2) ELSE Null
      id(idAt) == IF literal(idAt, <<"i","d">>)
                  THEN zeroX(skipSpace(afterColon(idAt + 2)))
                  ELSE Null
  IN IF literal(p, <<"f","o","r","m">>) THEN id(skipSpace(p + 4)) ELSE Null

\* FORMID_PATTERN.exec(line) with lastIndex = from - 1: the leftmost match
\* starting at or after position from
execFormIdPattern(line, from) ==
  LET leftmost(starts) ==
        IF starts = {} THEN Null
        ELSE matchFormIdAt(line, CHOOSE p \in starts : \A q \in starts : p <= q)
  IN leftmost({p \in from..Len(line) : matchFormIdAt(line, p) # Null})

RECURSIVE execAll(_, _)
\* while ((match = FORMID_PATTERN.exec(line)) !== null): the captured groups
execAll(line, from) ==
  LET rest(match) == IF match = Null THEN <<>>
                     ELSE <<match.group>> \o execAll(line, match.next)
  IN rest(execFormIdPattern(line, from))

\* parsePluginIndex(formId): Number.parseInt(formId.slice(0, 2), 16)
parsePluginIndex(formId) == hexValue(formId[1]) * 16 + hexValue(formId[2])

\* parseRecordId(formId): formId.slice(2).toUpperCase()
parseRecordId(formId) == toUpperCase(SubSeq(formId, 3, Len(formId)))

\* shouldFilterFormId that filters nothing
shouldFilterFormId_never(formId) == FALSE

\* shouldFilterFormId(formId): formId.toUpperCase().startsWith('FF')
shouldFilterFormId(formId) ==
  Len(formId) >= 2 /\ SubSeq(toUpperCase(formId), 1, 2) = <<"F", "F">>

\* The entries extractFormIds pushes for one line
extractFromLine(line, lineNumber) ==
  LET push(formIdHex) == [formId |-> formIdHex, pluginIndex |-> parsePluginIndex(formIdHex),
                          recordId |-> parseRecordId(formIdHex), lineNumber |-> lineNumber]
      kept(formIdHex) == ~shouldFilterFormId(formIdHex)
  IN mapSeq(SelectSeq(mapSeq(execAll(line, 1), toUpperCase), kept), push)

RECURSIVE extractFrom(_, _)
\* The loop of extractFormIds from line number lineNumber on
extractFrom(stack, lineNumber) ==
  IF lineNumber >= Len(stack) THEN <<>>
  ELSE extractFromLine(stack[lineNumber + 1], lineNumber) \o extractFrom(stack, lineNumber + 1)

\* extractFormIds(lines)
extractFormIds(stack) == extractFrom(stack, 0)

RECURSIVE countFrom(_, _, _)
\* The loop of countFormIdOccurrences from entry k on
countFrom(counts, formIds, k) ==
  IF k > Len(formIds) THEN counts
  ELSE LET formId == formIds[k].formId
           current == IF cacheHas(counts, formId) THEN cacheGet(counts, formId) ELSE 0
       IN countFrom(cacheSet(counts, formId, current + 1), formIds, k + 1)

\* countFormIdOccurrences that counts each identifier once
countFormIdOccurrences_once(formIds) ==
  LET ids == {formIds[k].formId : k \in 1..Len(formIds)}
      first(f) == CHOOSE k \in 1..Len(formIds) :
                    formIds[k].formId = f /\ \A m \in 1..(k - 1) : formIds[m].formId # f
      order == SelectSeq([k \in 1..Len(formIds) |-> k], LAMBDA k : first(formIds[k].formId) = k)
  IN [k \in 1..Len(order) |-> [key |-> formIds[order[k]].formId, value |-> 1]]

\* countFormIdOccurrences(formIds): a Map from identifier to count
countFormIdOccurrences(formIds) == countFrom(<<>>, formIds, 1)

\* Number.prototype.toString(16) of 0..255
toString16(index) ==
  LET digit(d) == lowerChar(HexDigits[d + 1])
  IN IF index < 16 THEN <<digit(index)>> ELSE <<digit(index \div 16), digit(index % 16)>>

\* String.prototype.padStart(2, '0')
padStart2(str) == IF Len(str) < 2 THEN [k \in 1..(2 - Len(str)) |-> "0"] \o str ELSE str

\* pluginIndexToHex without padStart
pluginIndexToHex_noPad(index) == toUpperCase(toString16(index))

\* pluginIndexToHex(index)
pluginIndexToHex(index) == padStart2(toUpperCase(toString16(index)))

\* resolvePluginIndex that looks FE up like any other index
resolvePluginIndex_resolvesFE(formId, list) ==
  LET hexIndex == pluginIndexToHex(formId.pluginIndex)
  IN IF cacheHas(list.plugins, hexIndex) THEN cacheGet(list.plugins, hexIndex).filename
     ELSE Null

\* resolvePluginIndex(formId, pluginList): the filename, or Null (undefined)
resolvePluginIndex(formId, list) ==
  LET hexIndex == pluginIndexToHex(formId.pluginIndex)
  IN IF hexIndex = <<"F", "E">> THEN Null
     ELSE IF cacheHas(list.plugins, hexIndex) THEN cacheGet(list.plugins, hexIndex).filename
     ELSE Null

\* ---------------------------------------------------------------------------
\* The forensic analyzer: analyzeFormIds
\* ---------------------------------------------------------------------------

\* The longest generated call stack
MaxStack == 3

\* getFormIdDatabasePaths(game): main first, then local
getFormIdDatabasePaths(game) ==
  IF game = "fallout4"
  THEN <<"databases/Fallout4 FormIDs Main.db", "databases/Fallout4 FormIDs Local.db">>
  ELSE <<"databases/Skyrim FormIDs Main.db", "databases/Skyrim FormIDs Local.db">>

\* Bun.file(dbPath).exists() throws on a path that is no file name
existsThrows(dbPath) == dbPath = "invalid"

\* databaseExists(dbPath): false when the check throws
databaseExists(dbPath) == IF existsThrows(dbPath) THEN FALSE ELSE dbPath \in disk

\* findAvailableDatabases that checks the custom paths first
findAvailableDatabases_customFirst(game, customPaths) ==
  SelectSeq(customPaths \o getFormIdDatabasePaths(game), databaseExists)

\* findAvailableDatabases(game, customPaths)
findAvailableDatabases(game, customPaths) ==
  SelectSeq(getFormIdDatabasePaths(game) \o customPaths, databaseExists)

\* `Unknown [${pluginIndexToHex(pluginIndex)}]`
unknownPlugin(pluginIndex) ==
  <<"U","n","k","n","o","w","n"," ","[">> \o pluginIndexToHex(pluginIndex) \o <<"]">>

\* The lookup result is dropped: no match gets a description
attachDescription_never(match, dbEntry) == match

\* if (dbEntry) { match.description = dbEntry.entry }
attachDescription(match, dbEntry) ==
  IF dbEntry # Null
  THEN [formId |-> match.formId, plugin |-> match.plugin, count |-> match.count,
        description |-> dbEntry.entry]
  ELSE match

\* One iteration of the match-building loop. acc: the matches pushed so far,
\* the cache, the lookups issued, and whether an error left a lookup; env:
\* what the loop reads.
buildMatch(acc, extracted, env) ==
  LET push(pluginName, count) ==
        LET match == [formId |-> extracted.formId,
                      plugin |-> IF pluginName # Null THEN pluginName
                                 ELSE unknownPlugin(extracted.pluginIndex),
                      count |-> count]
            after(looked) ==
              [matches |-> IF looked.throws THEN acc.matches
                           ELSE Append(acc.matches, attachDescription(match, looked.result)),
               cache |-> looked.cache,
               lookups |-> Append(acc.lookups,
                                  [formId |-> extracted.recordId, plugin |-> pluginName,
                                   for |-> extracted.formId,
                                   found |-> looked.result # Null,
                                   failed |-> looked.prepared /\ looked.gets = <<>>]),
               throws |-> looked.throws]
        IN IF env.lookup /\ pluginName # Null
           THEN after(lookupFormIdFrom(env.connections, env.dbs, acc.cache,
                                       extracted.recordId, pluginName, env.game))
           ELSE [matches |-> Append(acc.matches, match), cache |-> acc.cache,
                 lookups |-> acc.lookups, throws |-> FALSE]
  IN IF \E k \in 1..Len(acc.matches) : acc.matches[k].formId = extracted.formId
     THEN acc
     ELSE push(resolvePluginIndex(extracted, env.plugins),
               IF cacheHas(env.occurrenceCounts, extracted.formId)
               THEN cacheGet(env.occurrenceCounts, extracted.formId)
               ELSE 1)

RECURSIVE buildMatches(_, _, _, _)
\* The match-building loop from entry k on; an error ends it
buildMatches(acc, extractedFormIds, k, env) ==
  IF k > Len(extractedFormIds) \/ acc.throws THEN acc
  ELSE buildMatches(buildMatch(acc, extractedFormIds[k], env), extractedFormIds, k + 1, env)

\* matches.sort without effect: the matches stay in first-appearance order
sortByCount_unsorted(matches) == matches

\* matches.sort((a, b) => b.count - a.count): by count, descending, stable
sortByCount(matches) ==
  LET before(j, k) == \/ matches[j].count > matches[k].count
                      \/ (matches[j].count = matches[k].count /\ j < k)
      rank(k) == Cardinality({j \in 1..Len(matches) : before(j, k)}) + 1
  IN [r \in 1..Len(matches) |-> matches[CHOOSE k \in 1..Len(matches) : rank(k) = r]]

\* The enabled switch is ignored
isDisabled_never(cfg) == FALSE

\* config.enabled === false
isDisabled(cfg) == cfg.enabled = "false"

\* What analyzeFormIds(stack, plugins, cfg) returns and leaves behind, from
\* the current state. The discovery it awaits is taken as one step together
\* with the rest of the call. discovery: the candidate paths checked for
\* existence; opens: the paths handed to loadDatabase; thrown: an error
\* left the call instead of a result.
analyzeFormIdsOutcome(stack, plugins, cfg) ==
  LET untouched(result) == [result |-> result, connections |-> connections, dbs |-> dbs,
                            cache |-> queryCache, lookups |-> <<>>,
                            discovery |-> <<>>, opens |-> <<>>, thrown |-> FALSE]
      discovered(allPaths, dbPaths) ==
        IF Len(dbPaths) > 0
        THEN [load |-> loadDatabaseFrom(connections, dbs, dbPaths[1], cfg.game),
              discovery |-> allPaths, opens |-> <<dbPaths[1]>>]
        ELSE [load |-> [success |-> FALSE, connections |-> connections, dbs |-> dbs,
                        throws |-> FALSE],
              discovery |-> allPaths, opens |-> <<>>]
      finish(found, built) ==
        [result |-> IF found.load.throws \/ built.throws
                    THEN [error |-> "thrown"]
                    ELSE [matches |-> sortByCount(built.matches),
                          databaseAvailable |-> found.load.success],
         connections |-> found.load.connections, dbs |-> found.load.dbs,
         cache |-> built.cache, lookups |-> built.lookups,
         discovery |-> found.discovery, opens |-> found.opens,
         thrown |-> found.load.throws \/ built.throws]
      build(extractedFormIds, found) ==
        finish(found,
               buildMatches([matches |-> <<>>, cache |-> queryCache, lookups |-> <<>>,
                             throws |-> found.load.throws],
                            extractedFormIds, 1,
                            [plugins |-> plugins,
                             occurrenceCounts |-> countFormIdOccurrences(extractedFormIds),
                             lookup |-> found.load.success /\ cfg.showFormIdValues # "false",
                             game |-> cfg.game, connections |-> found.load.connections,
                             dbs |-> found.load.dbs]))
      analyze(extractedFormIds) ==
        IF Len(extractedFormIds) = 0
        THEN untouched([matches |-> <<>>, databaseAvailable |-> FALSE])
        ELSE build(extractedFormIds,
                   IF ~hasDatabase(cfg.game) /\ cfg.showFormIdValues # "false"
                   THEN discovered(getFormIdDatabasePaths(cfg.game) \o cfg.formIdDatabasePaths,
                                   findAvailableDatabases(cfg.game, cfg.formIdDatabasePaths))
                   ELSE [load |-> [success |-> hasDatabase(cfg.game),
                                   connections |-> connections, dbs |-> dbs,
                                   throws |-> FALSE],
                         discovery |-> <<>>, opens |-> <<>>])
  IN IF isDisabled(cfg)
     THEN untouched([matches |-> <<>>, databaseAvailable |-> FALSE])
     ELSE analyze(extractFormIds(stack))

\* analyzeFormIds on the log under analysis
analyzeFormIds ==
  /\ config # Null
  /\ \E out \in {analyzeFormIdsOutcome(callstackLines, pluginList, config)} :
     /\ Len(out.dbs) <= MaxLoads
     /\ connections' = out.connections
     /\ dbs' = out.dbs
     /\ queryCache' = out.cache
     /\ ret' = [op |-> "analyzeFormIds", result |-> out.result, lookups |-> out.lookups,
                discovery |-> out.discovery, opens |-> out.opens, thrown |-> out.thrown,
                before |-> [connections |-> connections, dbs |-> dbs,
                            queryCache |-> queryCache]]
     /\ UNCHANGED <<segVars, logVars, disk>>

\* What analyzeFormIdsSync(stack, plugins, game, generatorName) returns and
\* leaves behind, from the current state.
analyzeFormIdsSyncOutcome(stack, plugins, game, generatorName) ==
  LET databaseAvailable == hasDatabase(game)
      finish(built) ==
        [result |-> IF built.throws
                    THEN [error |-> "thrown"]
                    ELSE [matches |-> sortByCount(built.matches),
                          databaseAvailable |-> databaseAvailable,
                          generatorName |-> generatorName],
         cache |-> built.cache, lookups |-> built.lookups, thrown |-> built.throws]
      analyze(extractedFormIds) ==
        IF Len(extractedFormIds) = 0
        THEN [result |-> [matches |-> <<>>, databaseAvailable |-> databaseAvailable,
                          generatorName |-> generatorName],
              cache |-> queryCache, lookups |-> <<>>, thrown |-> FALSE]
        ELSE finish(buildMatches([matches |-> <<>>, cache |-> queryCache, lookups |-> <<>>,
                                  throws |-> FALSE],
                                 extractedFormIds, 1,
                                 [plugins |-> plugins,
                                  occurrenceCounts |-> countFormIdOccurrences(extractedFormIds),
                                  lookup |-> databaseAvailable,
                                  game |-> game, connections |-> connections,
                                  dbs |-> dbs]))
  IN analyze(extractFormIds(stack))

\* analyzeFormIdsSync on the log under analysis, for the configured game
analyzeFormIdsSync(generatorName) ==
  /\ config # Null
  /\ \E out \in {analyzeFormIdsSyncOutcome(callstackLines, pluginList, config.game,
                                           generatorName)} :
     /\ queryCache' = out.cache
     /\ ret' = [op |-> "analyzeFormIdsSync", result |-> out.result, lookups |-> out.lookups,
                discovery |-> <<>>, opens |-> <<>>, thrown |-> out.thrown,
                before |-> [connections |-> connections, dbs |-> dbs,
                            queryCache |-> queryCache]]
     /\ UNCHANGED <<connections, dbs, segVars, logVars, disk>>

\* Call-stack lines the generated logs are made of
NullIdLine ==
  <<"F","o","r","m","I","D",":"," ","0","x","0","0","0","0","0","0","0","0">>
DynamicIdLine ==
  <<"F","o","r","m","I","D",":"," ","0","x","F","F","0","0","0","0","0","0">>
ModIdLine ==
  <<"f","o","r","m"," ","i","d",":","0","X","0","1","0","0","1","2","3","4">>
TwoIdLine ==
  <<"F","o","r","m","I","D"," ","0","x","0","0","0","e","a","f","b","6"," ",
    "F","o","r","m","I","D",":","0","x","f","f","0","0","a","b","c","d",")">>
LongIdLine ==
  <<"F","o","r","m","I","D",":"," ","0","x","0","0","0","0","0","0","0","0","1">>
LightIdLine ==
  <<"F","o","r","m","I","D",":"," ","0","x","F","E","0","0","0","8","0","1">>

StackLines == {NullIdLine, DynamicIdLine, ModIdLine, TwoIdLine, LightIdLine}

CallStacks == UNION {[1..n -> StackLines] : n \in 0..MaxStack}

\* pluginList.plugins: from two-digit index to entry
LoadedPlugins ==
  << [key |-> <<"0","0">>, value |-> [index |-> <<"0","0">>, filename |-> Fallout4Esm]],
     [key |-> <<"0","1">>, value |-> [index |-> <<"0","1">>, filename |-> SomeModEsp]] >>

\* A PluginList without light plugins
standardList(plugins) ==
  [plugins |-> plugins, lightPlugins |-> <<>>, totalCount |-> Len(plugins)]

PluginLists == {standardList(LoadedPlugins), standardList(<<>>)}

\* FormIdAnalysisConfig: optional properties left out are "undefined"
Configs ==
  { [game |-> "fallout4", enabled |-> "undefined", showFormIdValues |-> "undefined",
     formIdDatabasePaths |-> <<>>],
    [game |-> "fallout4", enabled |-> "false", showFormIdValues |-> "undefined",
     formIdDatabasePaths |-> <<>>],
    [game |-> "fallout4", enabled |-> "true", showFormIdValues |-> "false",
     formIdDatabasePaths |-> <<"missing", "main">>],
    [game |-> "fallout4", enabled |-> "true", showFormIdValues |-> "true",
     formIdDatabasePaths |-> <<"missing", "main">>] }

InitAn ==
  /\ storeInit
  /\ segIdle
  /\ callstackLines \in CallStacks
  /\ pluginList \in PluginLists
  /\ config \in Configs
  /\ patternDb = Null

NextAn ==
  \/ loadDatabase("main", "fallout4")
  \/ analyzeFormIds
  \/ close

SpecAn == InitAn /\ [][NextAn]_vars

\* The identifiers FORMID_PATTERN captures in the lines, in upper case, each
\* with its line and its place among the captures of the line
capturedFormIds(stack) ==
  LET inLine(k, groups) == {<<k, m, toUpperCase(groups[m])>> : m \in 1..Len(groups)}
  IN UNION {inLine(k, execAll(stack[k], 1)) : k \in 1..Len(stack)}

\* The identifier has the FF prefix
hasDynamicPrefix(formId) == SubSeq(formId, 1, 2) = <<"F", "F">>

\* C10: a run of the analyzer that is not disabled returns exactly one match
\* per distinct identifier extracted from the call stack, with the number of
\* times that identifier was extracted as its count, so that the counts sum to
\* the number of extracted identifiers; identifiers with the FF prefix are not
\* extracted and have no match.
C10_OneMatchPerIdentifier ==
  (ret.op = "analyzeFormIds" /\ config.enabled # "false") =>
    \A extracted \in {extractFormIds(callstackLines)} :
      LET matches == ret.result.matches
          times(f) == Cardinality({k \in 1..Len(extracted) : extracted[k].formId = f})
          RECURSIVE total(_)
          total(k) == IF k = 0 THEN 0 ELSE matches[k].count + total(k - 1)
      IN /\ {matches[k].formId : k \in 1..Len(matches)}
              = {extracted[k].formId : k \in 1..Len(extracted)}
         /\ \A j, k \in 1..Len(matches) : matches[j].formId = matches[k].formId => j = k
         /\ \A k \in 1..Len(matches) : matches[k].count = times(matches[k].formId)
         /\ total(Len(matches)) = Len(extracted)
         /\ Len(extracted) = Cardinality({c \in capturedFormIds(callstackLines) :
                                            ~hasDynamicPrefix(c[3])})
         /\ \A k \in 1..Len(matches) : ~hasDynamicPrefix(matches[k].formId)

\* A run on a call stack where one identifier occurs twice, another once
\* and an FF-prefixed one is captured: two matches, one with count 2
C10_Witness ==
  /\ ret.op = "analyzeFormIds"
  /\ config.enabled # "false"
  /\ Len(ret.result.matches) = 2
  /\ ret.result.matches[1].count = 2
  /\ \E c \in capturedFormIds(callstackLines) : hasDynamicPrefix(c[3])

(***************************************************************************)
(* Analyzer runs, by both entry points, over plugin lists with and without *)
(* light plugins, configurations that reach, miss or fail to open a store  *)
(* file, and databases directories with and without the standard files.    *)
(***************************************************************************)
UnknownIdLine ==
  <<"F","o","r","m","I","D",":"," ","0","x","0","5","0","e","a","f","b","6">>

RunStacks ==
  { <<>>,
    <<DynamicIdLine, LongIdLine>>,
    <<ModIdLine, NullIdLine, NullIdLine>>,
    <<TwoIdLine, LightIdLine, ModIdLine>>,
    <<UnknownIdLine, TwoIdLine, UnknownIdLine>> }

LightEsl == <<"L",".","e","s","l">>

\* A plugin list with light plugins, whose standard table also has an FE key
LightPluginList ==
  [plugins |->
     LoadedPlugins \o
     << [key |-> <<"F","E">>, value |-> [index |-> <<"F","E">>, filename |-> LightEsl]] >>,
   lightPlugins |->
     << [key |-> <<"F","E",":","0","0","0">>,
         value |-> [index |-> <<"F","E",":","0","0","0">>, filename |-> LightEsl]] >>,
   totalCount |-> 4]

RunPluginLists == PluginLists \cup {LightPluginList}

SkyrimMainDb == "databases/Skyrim FormIDs Main.db"
SkyrimLocalDb == "databases/Skyrim FormIDs Local.db"

\* The databases directory: empty, with the local file, with both files
Disks == {CustomFiles, CustomFiles \cup {SkyrimLocalDb},
          CustomFiles \cup {SkyrimMainDb, SkyrimLocalDb}}

RunConfigs ==
  { [game |-> "fallout4", enabled |-> "undefined", showFormIdValues |-> "undefined",
     formIdDatabasePaths |-> <<>>],
    [game |-> "fallout4", enabled |-> "false", showFormIdValues |-> "undefined",
     formIdDatabasePaths |-> <<"main">>],
    [game |-> "fallout4", enabled |-> "true", showFormIdValues |-> "false",
     formIdDatabasePaths |-> <<"main">>],
    [game |-> "fallout4", enabled |-> "true", showFormIdValues |-> "true",
     formIdDatabasePaths |-> <<"missing", "main">>],
    [game |-> "fallout4", enabled |-> "undefined", showFormIdValues |-> "undefined",
     formIdDatabasePaths |-> <<"unreadable", "main">>],
    [game |-> "fallout4", enabled |-> "undefined", showFormIdValues |-> "undefined",
     formIdDatabasePaths |-> <<"invalid", "corrupt">>],
    [game |-> "skyrim", enabled |-> "undefined", showFormIdValues |-> "undefined",
     formIdDatabasePaths |-> <<"main">>] }

GeneratorNames == {"undefined", "Buffout4"}

InitRun ==
  /\ connections = [g \in Games |-> NoConn]
  /\ dbs = <<>>
  /\ queryCache = <<>>
  /\ ret = [op |-> "new"]
  /\ segIdle
  /\ callstackLines \in RunStacks
  /\ pluginList \in RunPluginLists
  /\ config \in RunConfigs
  /\ disk \in Disks
  /\ patternDb = Null

NextRun ==
  \/ \E dbPath \in {"main", "missing"} : loadDatabase(dbPath, config.game)
  \/ analyzeFormIds
  \/ \E generatorName \in GeneratorNames : analyzeFormIdsSync(generatorName)
  \/ close

SpecRun == InitRun /\ [][NextRun]_vars

\* The last call was a run of the analyzer that returned a result
analyzerReturned ==
  /\ ret.op \in {"analyzeFormIds", "analyzeFormIdsSync"}
  /\ "matches" \in DOMAIN ret.result

\* C11: in the match list returned by analyzeFormIds and by
\* analyzeFormIdsSync, the occurrence counts never increase from one match
\* to the next.
C11_CountsNonIncreasing ==
  analyzerReturned =>
    \A k \in 1..(Len(ret.result.matches) - 1) :
      ret.result.matches[k].count >= ret.result.matches[k + 1].count

\* A run whose most frequent identifier is not the first one in the call
\* stack: the first match has count 2 and is not the first identifier extracted
C11_Witness ==
  /\ analyzerReturned
  /\ Len(ret.result.matches) = 2
  /\ ret.result.matches[1].count = 2
  /\ ret.result.matches[2].count = 1
  /\ ret.result.matches[1].formId # extractFormIds(callstackLines)[1].formId

\* The filename the standard load-order table holds under a key, as a set
standardFilename(list, key) ==
  {list.plugins[k].value.filename : k \in {j \in 1..Len(list.plugins) : list.plugins[j].key = key}}

lookupFinds(formId, plugin, game) ==
  descriptionOf(lookupFormIdFrom(connections, dbs, queryCache,
                                 SubSeq(formId, 3, 8), plugin, game).result)

\* The match is labelled Unknown [XX]
isUnknownLabel(match) ==
  match.plugin = <<"U","n","k","n","o","w","n"," ","[">> \o SubSeq(match.formId, 1, 2) \o <<"]">>

\* No store is reachable for the run: no connection for the game was open
\* and none of the candidate files exists
noStoreReachable ==
  /\ ret.before.connections[config.game] = NoConn
  /\ \A dbPath \in {"databases/Fallout4 FormIDs Main.db", "databases/Fallout4 FormIDs Local.db",
                    "databases/Skyrim FormIDs Main.db", "databases/Skyrim FormIDs Local.db"}
                   \cup {config.formIdDatabasePaths[k] : k \in 1..Len(config.formIdDatabasePaths)} :
       dbPath = "invalid" \/ dbPath \notin disk

\* C13: a match returned by analyzeFormIds carries a description exactly when
\* the result reports the store available, descriptions were not switched
\* off, the identifier's module index was resolved to a plugin and the
\* store's lookup of the record index under that plugin finds an entry, whose
\* text is then the description; a match labelled Unknown [XX] has no
\* description, and a run for which no store is reachable reports the store
\* unavailable and returns its matches with plugin and count and without
\* description.
C13_DescriptionIffLookupFinds ==
  (ret.op = "analyzeFormIds" /\ "matches" \in DOMAIN ret.result) =>
    /\ \A k \in 1..Len(ret.result.matches) :
         \E match \in {ret.result.matches[k]} :
           \E found \in {lookupFinds(match.formId, match.plugin, config.game)} :
             /\ "description" \in DOMAIN match
                  <=> /\ ret.result.databaseAvailable
                      /\ config.showFormIdValues # "false"
                      /\ ~isUnknownLabel(match)
                      /\ found # {}
             /\ "description" \in DOMAIN match => {match.description} = found
             /\ isUnknownLabel(match) => "description" \notin DOMAIN match
    /\ (config.enabled # "false" /\ noStoreReachable) =>
         /\ ~ret.result.databaseAvailable
         /\ Len(ret.result.matches)
              = Cardinality({extractFormIds(callstackLines)[k].formId :
                               k \in 1..Len(extractFormIds(callstackLines))})
         /\ \A k \in 1..Len(ret.result.matches) :
              /\ DOMAIN ret.result.matches[k] = {"formId", "plugin", "count"}
              /\ ret.result.matches[k].count >= 1

\* A run with the store available that returned a match with the description
\* the store holds, and a match labelled Unknown [XX] without one
C13_Witness ==
  /\ ret.op = "analyzeFormIds"
  /\ ret.result.databaseAvailable
  /\ \E k \in 1..Len(ret.result.matches) :
       /\ "description" \in DOMAIN ret.result.matches[k]
       /\ ret.result.matches[k].description = "ModdedItem"
  /\ \E k \in 1..Len(ret.result.matches) :
       /\ isUnknownLabel(ret.result.matches[k])
       /\ "description" \notin DOMAIN ret.result.matches[k]

\* C14: a run of analyzeFormIds with enabled = false returns no match and
\* reports the store unavailable, whatever the call stack and the plugin
\* list; it checks no candidate file, opens nothing, looks nothing up, and
\* leaves the manager's connections, its Database objects and its cache as
\* they were, also when a connection for the game is open.
C14_DisabledRunTouchesNothing ==
  (ret.op = "analyzeFormIds" /\ config.enabled = "false") =>
    /\ ret.thrown = FALSE
    /\ DOMAIN ret.result = {"matches", "databaseAvailable"}
    /\ ret.result.matches = <<>>
    /\ ret.result.databaseAvailable = FALSE
    /\ ret.discovery = <<>>
    /\ ret.opens = <<>>
    /\ ret.lookups = <<>>
    /\ connections = ret.before.connections
    /\ dbs = ret.before.dbs
    /\ queryCache = ret.before.queryCache

\* A disabled run on a call stack with identifiers to extract, made while a
\* connection for the game is open and the cache is not empty
C14_Witness ==
  /\ ret.op = "analyzeFormIds"
  /\ config.enabled = "false"
  /\ Len(extractFormIds(callstackLines)) > 0
  /\ hasOpenConnection(config.game)
  /\ queryCache # <<>>

\* The store-layer errors raised during the last run: a candidate whose
\* existence check throws, an open that throws, a query that throws
failedDiscovery == \E k \in 1..Len(ret.discovery) : ret.discovery[k] = "invalid"
failedOpen == \E k \in 1..Len(ret.opens) : ret.opens[k] \notin disk \cap DOMAIN StoreFiles
failedQueries == {ret.lookups[k].for : k \in {j \in 1..Len(ret.lookups) : ret.lookups[j].failed}}

\* C15: every run of analyzeFormIds and of analyzeFormIdsSync returns a
\* result, with a match list whose matches have identifier, plugin and count
\* and with a Boolean store availability, and no error leaves the call; a
\* failed open shows as the store being unavailable, a failed query as the
\* match of that identifier having no description, and a candidate whose
\* existence check fails is not opened.
C15_NoStoreErrorEscapes ==
  ret.op \in {"analyzeFormIds", "analyzeFormIdsSync"} =>
    /\ ret.thrown = FALSE
    /\ {"matches", "databaseAvailable"} \subseteq DOMAIN ret.result
    /\ ret.result.databaseAvailable \in BOOLEAN
    /\ \A k \in 1..Len(ret.result.matches) :
         /\ {"formId", "plugin", "count"} \subseteq DOMAIN ret.result.matches[k]
         /\ DOMAIN ret.result.matches[k] \subseteq {"formId", "plugin", "count", "description"}
         /\ ret.result.matches[k].formId \in failedQueries
              => "description" \notin DOMAIN ret.result.matches[k]
    /\ failedQueries \subseteq {ret.result.matches[k].formId : k \in 1..Len(ret.result.matches)}
    /\ failedOpen => ~ret.result.databaseAvailable
    /\ \A k \in 1..Len(ret.opens) : ret.opens[k] # "invalid"

\* Runs during which the store layer raised an error: an existence check
\* and then every query on a store file without the game's table
C15_Witness ==
  /\ ret.op = "analyzeFormIds"
  /\ failedDiscovery
  /\ ret.opens = <<"corrupt">>
  /\ ret.result.databaseAvailable
  /\ Cardinality(failedQueries) = 2

\* The candidate store files of the configured game in the order Main
\* database, Local database, caller-supplied paths
candidatePaths ==
  (IF config.game = "fallout4"
   THEN <<"databases/Fallout4 FormIDs Main.db", "databases/Fallout4 FormIDs Local.db">>
   ELSE <<"databases/Skyrim FormIDs Main.db", "databases/Skyrim FormIDs Local.db">>)
  \o config.formIdDatabasePaths

\* The positions of the candidates that exist
existingCandidates ==
  {k \in 1..Len(candidatePaths) : candidatePaths[k] \in disk /\ candidatePaths[k] # "invalid"}

\* C16: a run of analyzeFormIds checks candidate files and opens one only
\* when it starts without a connection for the game and descriptions are not
\* switched off. It then checks the candidates in the order Main, Local,
\* custom paths, hands only the first existing one to loadDatabase, once,
\* and reports as store availability whether that open succeeded (false when
\* no candidate exists), without trying a later candidate after a failure.
\* A run that starts with a connection for the game checks and opens
\* nothing, leaves the connection in place and reports the store available.
C16_OneOpenOfFirstCandidate ==
  (ret.op = "analyzeFormIds" /\ "matches" \in DOMAIN ret.result) =>
    /\ (ret.discovery # <<>> \/ ret.opens # <<>>) =>
         /\ ret.before.connections[config.game] = NoConn
         /\ config.showFormIdValues # "false"
         /\ ret.discovery = candidatePaths
    /\ Len(ret.opens) <= 1
    /\ Len(dbs) <= Len(ret.before.dbs) + 1
    /\ ret.discovery # <<>> =>
         IF existingCandidates = {}
         THEN ret.opens = <<>> /\ ~ret.result.databaseAvailable /\ dbs = ret.before.dbs
         ELSE \E first \in existingCandidates :
                /\ \A k \in existingCandidates : first <= k
                /\ ret.opens = <<candidatePaths[first]>>
                /\ ret.result.databaseAvailable <=> candidatePaths[first] \in DOMAIN StoreFiles
                /\ IF ret.result.databaseAvailable
                   THEN /\ hasOpenConnection(config.game)
                        /\ dbs[connectionOf(config.game)].path = candidatePaths[first]
                        /\ Len(dbs) = Len(ret.before.dbs) + 1
                   ELSE connections = ret.before.connections /\ dbs = ret.before.dbs
    /\ ret.before.connections[config.game] # NoConn =>
         /\ ret.discovery = <<>>
         /\ ret.opens = <<>>
         /\ connections = ret.before.connections
         /\ dbs = ret.before.dbs
         /\ Len(ret.result.matches) > 0 => ret.result.databaseAvailable

\* A run that found the Main database missing, opened the Local database
\* and left the custom store file, which exists too, unopened
C16_Witness ==
  /\ ret.op = "analyzeFormIds"
  /\ ret.opens = <<"databases/Skyrim FormIDs Local.db">>
  /\ "databases/Skyrim FormIDs Main.db" \notin disk
  /\ \E k \in existingCandidates : candidatePaths[k] = "main"
  /\ ret.result.databaseAvailable
  /\ \E k \in 1..Len(ret.result.matches) :
       /\ "description" \in DOMAIN ret.result.matches[k]
       /\ ret.result.matches[k].description = "LocalItem"

(***************************************************************************)
(* The extractor as a function of one line: lines put together from the    *)
(* pieces of FORMID_PATTERN, each piece present, absent, repeated or       *)
(* replaced, around hex runs of seven, eight and nine digits.              *)
(***************************************************************************)
\* The lines: Form, gap, ID, colon, gap, 0x, hex run, trailer
GrammarLines ==
  LET Forms == {<<"F","o","r","m">>, <<"x","f","O","R","M">>, <<"F","r","o","m">>}
      Gaps == {<<>>, <<" ">>, <<" ", " ">>, <<"\t">>, <<"-">>}
      Ids == {<<"I","D">>, <<"i","d">>}
      Colons == {<<>>, <<":">>, <<":", ":">>}
      ZeroXs == {<<"0","x">>, <<"0","X">>, <<>>}
      HexRuns == { <<"0","A","0","0","1","2","3","4">>,
                   <<"0","a","0","0","e","a","f","b","6">>,
                   <<"f","F","0","0","a","b","c","d">>,
                   <<"0","0","0","0","0","0","0","0">>,
                   <<"f","e","0","0","0","8","0","1">>,
                   <<"0","0","0","e","a","f","b">>,
                   <<"0","0","0","0","1","2","3","g">> }
      Trailers == {<<>>, <<")">>, <<"_">>, <<" ", "F","o","r","m","I","D",":","0","x",
                                           "F","F","0","0","0","0","0","1">>}
  IN { form \o gap1 \o id \o colon \o gap2 \o zeroX \o hexRun \o trailer :
         form \in Forms, gap1 \in Gaps, id \in Ids, colon \in Colons,
         gap2 \in Gaps, zeroX \in ZeroXs, hexRun \in HexRuns, trailer \in Trailers }

\* One line for each pair of leading hexadecimal digits, in both cases
PrefixLines ==
  LET HexChars == {HexDigits[k] : k \in 1..Len(HexDigits)}
                    \cup {"a", "b", "c", "d", "e", "f"}
  IN { <<"F","o","r","m","I","D",":"," ","0","x", x, y, "0","0","a","B","c","D">> :
         x \in HexChars, y \in HexChars }

InitEx ==
  /\ storeInit
  /\ segIdle
  /\ callstackLines \in {<<line>> : line \in GrammarLines \cup PrefixLines}
  /\ pluginList = <<>>
  /\ config = Null
  /\ patternDb = Null

\* extractFormIds(lines) on the line; captures: match[1] of every match of
\* FORMID_PATTERN, as written in the line
callExtractFormIds ==
  /\ ret' = [op |-> "extractFormIds", result |-> extractFormIds(callstackLines),
             captures |-> execAll(callstackLines[1], 1)]
  /\ UNCHANGED <<connections, dbs, queryCache, segVars, logVars, disk>>

\* pluginIndexToHex(parsePluginIndex(x)) for a captured x
callPluginIndexToHex ==
  /\ \E x \in {execAll(callstackLines[1], 1)[k] : k \in 1..Len(execAll(callstackLines[1], 1))} :
       \E pluginIndex \in {parsePluginIndex(x)} :
         ret' = [op |-> "pluginIndexToHex", x |-> x, pluginIndex |-> pluginIndex,
                 hex |-> pluginIndexToHex(pluginIndex)]
  /\ UNCHANGED <<connections, dbs, queryCache, segVars, logVars, disk>>

NextEx == callExtractFormIds \/ callPluginIndexToHex

SpecEx == InitEx /\ [][NextEx]_vars

\* The hexadecimal digits in both letter cases, and the upper-case ones
HexChars ==
  {"0","1","2","3","4","5","6","7","8","9","A","B","C","D","E","F","a","b","c","d","e","f"}
UpperHexChars == {"0","1","2","3","4","5","6","7","8","9","A","B","C","D","E","F"}

\* The hex runs of the line that stand in the grammar Form, gap, ID,
\* optional colon, gap, 0x, eight hexadecimal digits, word boundary, with
\* letters in either case, when a gap is maxGap or fewer characters of
\* gapChars: the positions of their first digits
grammarMatches(line, gapChars, maxGap) ==
  LET n == Len(line)
      at(q, lower, upper) == q >= 1 /\ q <= n /\ line[q] \in {lower, upper}
      gap(q, len) == len <= maxGap /\ \A m \in q..(q + len - 1) : line[m] \in gapChars
      form(q) == at(q, "f", "F") /\ at(q + 1, "o", "O") /\ at(q + 2, "r", "R")
                   /\ at(q + 3, "m", "M")
      id(q) == at(q, "i", "I") /\ at(q + 1, "d", "D")
      zeroX(q) == at(q, "0", "0") /\ at(q + 1, "x", "X")
      digits(q) == /\ q + 7 <= n
                   /\ \A m \in q..(q + 7) : line[m] \in HexChars
                   /\ (q + 8 > n \/ line[q + 8] \notin WordChars)
  IN { h \in 1..n :
         /\ digits(h)
         /\ zeroX(h - 2)
         /\ \E b \in 0..(h - 3) :
              /\ gap(h - 2 - b, b)
              /\ \E c \in {0, 1} :
                   /\ c = 1 => at(h - 2 - b - 1, ":", ":")
                   /\ id(h - 2 - b - c - 2)
                   /\ \E a \in 0..(h - 2 - b - c - 3) :
                        /\ gap(h - 2 - b - c - 2 - a, a)
                        /\ form(h - 2 - b - c - 2 - a - 4) }

\* The identifiers at these positions, in upper case, in line order
identifiersAt(line, positions) ==
  LET RECURSIVE from(_)
      from(h) == IF h > Len(line) THEN <<>>
                 ELSE IF h \in positions
                 THEN <<[k \in 1..8 |-> IF line[h + k - 1] \in DOMAIN UpperOf
                                        THEN UpperOf[line[h + k - 1]]
                                        ELSE line[h + k - 1]]>> \o from(h + 1)
                 ELSE from(h + 1)
  IN from(1)

\* The identifiers of the line under extraction that stand in the grammar of
\* FORMID_PATTERN with gaps of any number of white-space characters
grammarIdentifiers ==
  identifiersAt(callstackLines[1],
                grammarMatches(callstackLines[1], WhiteSpace, Len(callstackLines[1])))

\* C17: extractFormIds returns no identifier whose first two digits are FF,
\* in whichever letter case the line has them; it returns every other
\* identifier of the line that stands in the grammar, in upper case and in
\* line order; and the identifier 00000000 is among them whenever the line
\* has it.
C17_DynamicIdentifiersFiltered ==
  ret.op = "extractFormIds" =>
    \E ids \in {grammarIdentifiers} :
      /\ \A k \in 1..Len(ret.result) : SubSeq(ret.result[k].formId, 1, 2) # <<"F", "F">>
      /\ [k \in 1..Len(ret.result) |-> ret.result[k].formId]
           = SelectSeq(ids, LAMBDA id : SubSeq(id, 1, 2) # <<"F", "F">>)
      /\ (\E k \in 1..Len(ids) : ids[k] = <<"0","0","0","0","0","0","0","0">>)
           => \E k \in 1..Len(ret.result) :
                ret.result[k].formId = <<"0","0","0","0","0","0","0","0">>

\* A line with the identifier 00000000 followed by an FF-prefixed one: both
\* match the pattern and only the first is returned
C17_Witness ==
  /\ ret.op = "extractFormIds"
  /\ Len(ret.captures) = 2
  /\ SubSeq(ret.captures[2], 1, 2) = <<"F", "F">>
  /\ Len(ret.result) = 1
  /\ ret.result[1].formId = <<"0","0","0","0","0","0","0","0">>

\* The upper-case form of a hexadecimal digit
upperHex(ch) ==
  CASE ch = "a" -> "A" [] ch = "b" -> "B" [] ch = "c" -> "C"
    [] ch = "d" -> "D" [] ch = "e" -> "E" [] ch = "f" -> "F" [] OTHER -> ch

\* C18: every identifier extractFormIds returns is eight upper-case
\* hexadecimal digits; pluginIndexToHex of its plugin index is its first two
\* digits and its record id is its last six digits, in upper case whatever
\* the case in the line. For every eight-digit hexadecimal string x matched
\* in a line, pluginIndexToHex(parsePluginIndex(x)) is the first two
\* characters of x in upper case.
C18_IdentifierDecomposition ==
  /\ ret.op = "extractFormIds" =>
       \A k \in 1..Len(ret.result) :
         \E e \in {ret.result[k]} :
           /\ Len(e.formId) = 8
           /\ \A m \in 1..8 : e.formId[m] \in UpperHexChars
           /\ e.pluginIndex \in 0..255
           /\ pluginIndexToHex(e.pluginIndex) = <<e.formId[1], e.formId[2]>>
           /\ e.recordId = [m \in 1..6 |-> e.formId[m + 2]]
           /\ \A m \in 1..6 : e.recordId[m] \in UpperHexChars
  /\ ret.op = "pluginIndexToHex" =>
       /\ Len(ret.x) = 8
       /\ ret.hex = <<upperHex(ret.x[1]), upperHex(ret.x[2])>>

\* An identifier written in lower case whose plugin index is below 16: its
\* parts come back in upper case and the index formats with a leading zero
C18_Witness ==
  /\ ret.op = "extractFormIds"
  /\ ret.captures = << <<"0","a","0","0","a","B","c","D">> >>
  /\ Len(ret.result) = 1
  /\ ret.result[1].pluginIndex = 10
  /\ ret.result[1].recordId = <<"0","0","A","B","C","D">>

\* The identifiers matched in the line under extraction, in upper case
capturedIdentifiers ==
  [k \in 1..Len(ret.captures) |-> [m \in 1..8 |-> upperHex(ret.captures[k][m])]]

\* The number of places of the line where 0x, in either case, is followed by
\* a run of exactly eight hexadecimal digits
eightDigitRuns ==
  LET line == callstackLines[1]
      isHex(q) == q <= Len(line) /\ line[q] \in HexChars
  IN Cardinality({z \in 1..(Len(line) - 1) :
                    /\ line[z] = "0" /\ line[z + 1] \in {"x", "X"}
                    /\ \A q \in (z + 2)..(z + 9) : isHex(q)
                    /\ ~isHex(z + 10)})

\* C19 as stated: the identifiers matched are those that stand in the grammar
\* Form, at most one space, ID, an optional colon, at most one space, 0x,
\* eight hexadecimal digits, word boundary, in either letter case; no run of
\* fewer or more than eight digits yields one.
C19_AsStated ==
  ret.op = "extractFormIds" =>
    /\ capturedIdentifiers
         = identifiersAt(callstackLines[1], grammarMatches(callstackLines[1], {" "}, 1))
    /\ Len(ret.captures) <= eightDigitRuns

\* C19: the identifiers matched are those that stand in the grammar Form,
\* any number of white-space characters, ID, an optional colon, any number
\* of white-space characters, 0x, eight hexadecimal digits, word boundary,
\* in either letter case; no run of fewer or more than eight digits yields
\* one.
C19_GrammarWithWhiteSpaceRuns ==
  ret.op = "extractFormIds" =>
    /\ capturedIdentifiers = grammarIdentifiers
    /\ Len(ret.captures) <= eightDigitRuns

\* A line with a tab between Form and ID and two spaces after the colon,
\* whose identifier is matched
C19_Witness ==
  /\ ret.op = "extractFormIds"
  /\ callstackLines[1] = <<"F","o","r","m","\t","I","D",":"," "," ","0","x",
                           "0","A","0","0","1","2","3","4">>
  /\ ret.captures = << <<"0","A","0","0","1","2","3","4">> >>

(***************************************************************************)
(* parsePluginEntry and parsePluginList (lib/formid/index.ts)              *)
(***************************************************************************)
MaxPlugins == 2

\* String.prototype.trim
trim(str) ==
  LET inner == {k \in 1..Len(str) : str[k] \notin WhiteSpace}
  IN IF inner = {} THEN <<>>
     ELSE SubSeq(str, CHOOSE k \in inner : \A m \in inner : k <= m,
                      CHOOSE k \in inner : \A m \in inner : k >= m)

\* parsePluginEntry(line): Null (undefined) or the entry. PLUGIN_ENTRY_PATTERN
\* is ^\s*\[([0-9A-Fa-f]{2}(?::[0-9A-Fa-f]{3})?)\]\s+(.+?)\s*$
parsePluginEntry(line) ==
  LET n == Len(line)
      hexAt(q) == q <= n /\ isHexChar(line[q])
      is(q, ch) == q <= n /\ line[q] = ch
      openAt == CHOOSE r \in 1..(n + 1) :
                /\ r = n + 1 \/ line[r] \notin WhiteSpace
                /\ \A m \in 1..(r - 1) : line[m] \in WhiteSpace
      entry(indexPart, filename) ==
        IF Len(indexPart) = 0 \/ Len(filename) = 0 THEN Null
        ELSE [index |-> indexPart, filename |-> filename,
              isLight |-> \E k \in 1..Len(indexPart) : indexPart[k] = ":"]
      rest(first, closeAt) ==
        IF is(closeAt, "]") /\ closeAt + 1 <= n /\ line[closeAt + 1] \in WhiteSpace
             /\ trim(SubSeq(line, closeAt + 1, n)) # <<>>
        THEN entry(toUpperCase(SubSeq(line, first, closeAt - 1)),
                   trim(SubSeq(line, closeAt + 1, n)))
        ELSE Null
      index(first) ==
        IF ~(hexAt(first) /\ hexAt(first + 1)) THEN Null
        ELSE IF is(first + 2, ":") /\ hexAt(first + 3) /\ hexAt(first + 4) /\ hexAt(first + 5)
                  /\ is(first + 6, "]")
        THEN rest(first, first + 6)
        ELSE rest(first, first + 2)
  IN IF is(openAt, "[") THEN index(openAt + 1) ELSE Null

RECURSIVE parsePluginLines(_, _, _)
\* The loop of parsePluginList from line k on
parsePluginLines(acc, segmentLines, k) ==
  IF k > Len(segmentLines) THEN acc
  ELSE LET set(entry) ==
             IF entry = Null THEN acc
             ELSE IF entry.isLight
             THEN [acc EXCEPT !.lightPlugins = cacheSet(@, entry.index, entry)]
             ELSE [acc EXCEPT !.plugins = cacheSet(@, entry.index, entry)]
       IN parsePluginLines(set(parsePluginEntry(segmentLines[k])), segmentLines, k + 1)

\* parsePluginList(segment); segment Null: undefined
parsePluginList(segment) ==
  LET count(tables) == [plugins |-> tables.plugins, lightPlugins |-> tables.lightPlugins,
                        totalCount |-> Len(tables.plugins) + Len(tables.lightPlugins)]
  IN IF segment = Null \/ segment.type # "plugins"
     THEN [plugins |-> <<>>, lightPlugins |-> <<>>, totalCount |-> 0]
     ELSE count(parsePluginLines([plugins |-> <<>>, lightPlugins |-> <<>>], segment.lines, 1))

\* Lines of a plugins segment: [index], gap, filename
PluginLines ==
  LET Indexes == { <<"0","0">>, <<"0","a">>, <<"F","D">>, <<"f","e">>, <<"F","F">>,
                   <<"F","E",":","0","0","0">>, <<"f","e",":","0","0","1">>,
                   <<"0","A",":","0","0","1">>, <<"F","E",":","0","0">>, <<"0">> }
      Tails == { <<" ","F","4",".","e","s","m">>, <<"\t"," ","M",".","e","s","p"," ">>,
                 <<"L",".","e","s","l">>, <<" "," ">> }
  IN { <<"P","L","U","G","I","N","S",":">> }
     \cup { lead \o <<"[">> \o index \o <<"]">> \o tail :
              lead \in {<<>>, <<"\t">>}, index \in Indexes, tail \in Tails }

\* The segment handed to parsePluginList: none, or one of some type
PluginSegments ==
  {<<>>} \cup { <<[type |-> type, startLine |-> 0, endLine |-> Len(segmentLines),
                   lines |-> segmentLines]>> :
                  type \in {"plugins", "modules"},
                  segmentLines \in UNION {[1..n -> PluginLines] : n \in 0..MaxPlugins} }

InitPl ==
  /\ storeInit
  /\ content = <<>>
  /\ lines = <<>>
  /\ iLine = 0
  /\ currentSegment = Null
  /\ segments \in PluginSegments
  /\ pc = "done"
  /\ logIdle

\* parsePluginList on the plugins segment, if there is one
callParsePluginList ==
  /\ pluginList' = parsePluginList(IF segments = <<>> THEN Null ELSE segments[1])
  /\ ret' = [op |-> "parsePluginList"]
  /\ UNCHANGED <<connections, dbs, queryCache, segVars, callstackLines, config, disk, patternDb>>

NextPl == callParsePluginList

SpecPl == InitPl /\ [][NextPl]_vars

\* The entries parsePluginEntry finds in the lines of the segment parsed
parsedEntries ==
  IF segments = <<>> \/ segments[1].type # "plugins" THEN {}
  ELSE {parsePluginEntry(segments[1].lines[k]) : k \in 1..Len(segments[1].lines)} \ {Null}

\* Every entry is in the light table when its index has a colon, and in the
\* standard table under its two digits in upper case when it has none
storedByColon ==
  /\ \A entry \in parsedEntries :
       IF \E k \in 1..Len(entry.index) : entry.index[k] = ":"
       THEN /\ cacheHas(pluginList.lightPlugins, entry.index)
            /\ ~cacheHas(pluginList.plugins, entry.index)
       ELSE /\ Len(entry.index) = 2
            /\ cacheHas(pluginList.plugins, <<upperHex(entry.index[1]), upperHex(entry.index[2])>>)
            /\ ~cacheHas(pluginList.lightPlugins, entry.index)
  /\ \A k \in 1..Len(pluginList.plugins) :
       \E entry \in parsedEntries : entry.index = pluginList.plugins[k].key
  /\ \A k \in 1..Len(pluginList.lightPlugins) :
       \E entry \in parsedEntries : entry.index = pluginList.lightPlugins[k].key

\* Every standard key is two upper-case hexadecimal digits from 00 to FD
standardKeysInRange ==
  \A k \in 1..Len(pluginList.plugins) :
    \E key \in {pluginList.plugins[k].key} :
      /\ Len(key) = 2
      /\ key[1] \in UpperHexChars /\ key[2] \in UpperHexChars
      /\ key \notin {<<"F","E">>, <<"F","F">>}

\* Every light key is FE, a colon and three hexadecimal digits
lightKeysHaveFE ==
  \A k \in 1..Len(pluginList.lightPlugins) :
    \E key \in {pluginList.lightPlugins[k].key} :
      /\ Len(key) = 6
      /\ SubSeq(key, 1, 3) = <<"F","E",":">>
      /\ \A m \in 4..6 : key[m] \in UpperHexChars

\* totalCount is the number of standard entries plus the number of light ones
totalCountIsSum ==
  pluginList.totalCount = Len(pluginList.plugins) + Len(pluginList.lightPlugins)

\* C20: parsePluginList stores an entry in the light table exactly when its
\* index contains a colon, and otherwise in the standard table under its two
\* digits in upper case; in the list it returns every standard key lies in
\* 00..FD, every light key has the form FE:xxx, and totalCount is the number
\* of standard entries plus the number of light entries.
C20_PluginTables ==
  ret.op = "parsePluginList" =>
    storedByColon /\ standardKeysInRange /\ lightKeysHaveFE /\ totalCountIsSum

(***************************************************************************)
(* scanCrashLog: the scan of one crash-log file against the pattern        *)
(* database.                                                               *)
(***************************************************************************)
\* Lines of one scanned log
MaxScanLines == 2

\* The text of the path strings used as config.logPath
fileNameText ==
  ("crash-1.log" :> <<"c","r","a","s","h","-","1",".","l","o","g">>) @@
  ("NetScriptFramework.log" :>
     <<"N","e","t","S","c","r","i","p","t","F","r","a","m","e","w","o","r","k",".","l","o","g">>) @@
  ("log.txt" :> <<"l","o","g",".","t","x","t">>)

\* RegExp /<prefix>.*<suffix>$/i tested on a file name
fileNamePattern(prefix, suffix, fileName) ==
  LET name == toLowerCase(fileName) IN
  \E k \in 1..Len(name) :
    /\ k + Len(prefix) - 1 <= Len(name) - Len(suffix)
    /\ SubSeq(name, k, k + Len(prefix) - 1) = prefix
    /\ SubSeq(name, Len(name) - Len(suffix) + 1, Len(name)) = suffix

\* The file-name patterns of each game, in Object.entries order
CRASH_LOG_PATTERNS ==
  << [game |-> "fallout4",
      patterns |-> << [prefix |-> <<"c","r","a","s","h","-">>, suffix |-> <<".","l","o","g">>],
                      [prefix |-> <<"b","u","f","f","o","u","t","4">>,
                       suffix |-> <<".","l","o","g">>],
                      [prefix |-> <<"c","r","a","s","h","l","o","g">>,
                       suffix |-> <<".","t","x","t">>] >>],
     [game |-> "skyrim",
      patterns |-> << [prefix |-> <<"c","r","a","s","h","-">>, suffix |-> <<".","l","o","g">>],
                      [prefix |-> <<"n","e","t","s","c","r","i","p","t","f","r","a","m","e","w","o","r","k">>,
                       suffix |-> <<".","l","o","g">>],
                      [prefix |-> <<"c","r","a","s","h","l","o","g">>,
                       suffix |-> <<".","t","x","t">>] >>] >>

\* detectGame(content, fileName): the first game with a matching file-name
\* pattern, else the game named in the content, else "undefined"
detectGame(text, fileName) ==
  LET byName == {k \in 1..Len(CRASH_LOG_PATTERNS) :
                   \E p \in 1..Len(CRASH_LOG_PATTERNS[k].patterns) :
                     fileNamePattern(CRASH_LOG_PATTERNS[k].patterns[p].prefix,
                                     CRASH_LOG_PATTERNS[k].patterns[p].suffix, fileName)}
      contentLower == toLowerCase(text)
  IN  IF fileName # <<>> /\ byName # {}
      THEN CRASH_LOG_PATTERNS[CHOOSE k \in byName : \A j \in byName : k <= j].game
      ELSE IF includes(contentLower, <<"f","a","l","l","o","u","t","4">>)
              \/ includes(contentLower, <<"f","4","s","e">>)
              \/ includes(contentLower, <<"b","u","f","f","o","u","t","4">>)
      THEN "fallout4"
      ELSE IF includes(contentLower, <<"s","k","y","r","i","m">>)
              \/ includes(contentLower, <<"s","k","s","e">>)
              \/ includes(contentLower,
                          <<"n","e","t","s","c","r","i","p","t","f","r","a","m","e","w","o","r","k">>)
      THEN "skyrim"
      ELSE "undefined"

\* readTextFile(filePath): the text of the file, or an error when it does
\* not exist
readTextFile(filePath, text) ==
  IF filePath \in disk THEN [success |-> TRUE, data |-> text]
  ELSE [success |-> FALSE, error |-> "File not found"]

\* A pattern that is not a regular expression: new RegExp throws on it
InvalidPattern == <<"(">>

\* new RegExp(entry.pattern, 'i').test(line), for patterns made of literal
\* characters
regexTest(pattern, line) == includes(toLowerCase(line), toLowerCase(pattern))

RECURSIVE flatten(_)
\* The entries of every category, in Map order
flatten(categories) ==
  IF categories = <<>> THEN <<>> ELSE Head(categories) \o flatten(Tail(categories))

\* DatabaseManager.findMatchingPatterns(line, game)
findMatchingPatterns(line, game) ==
  IF patternDb = Null THEN <<>>
  ELSE SelectSeq(flatten(patternDb.patterns),
                 LAMBDA entry : /\ game \in entry.games
                                /\ entry.pattern # InvalidPattern
                                /\ regexTest(entry.pattern, line))

RECURSIVE searchPatterns(_, _, _, _, _)
\* The pattern loop of scanCrashLog from line i (0-based) on: one issue is
\* pushed for every match of the line
searchPatterns(issues, scanned, i, game, maxErrors) ==
  IF i >= Len(scanned) THEN issues
  ELSE IF maxErrors # {} /\ \E m \in maxErrors : Len(issues) >= m THEN issues
  ELSE LET matches == findMatchingPatterns(scanned[i + 1], game)
           pushed == [k \in 1..Len(matches) |->
                        [id |-> matches[k].id, severity |-> matches[k].severity,
                         lineNumber |-> {i + 1}]]
       IN  searchPatterns(issues \o pushed, scanned, i + 1, game, maxErrors)

\* scanCrashLog(config) on the file whose text is text: the ScanResult
\* (startTime, endTime and durationMs, which read the clock, are left out;
\* title, description and suggestion are copied with the id)
scanCrashLogOutcome(cfg, text) ==
  LET fileResult == readTextFile(cfg.logPath, text) IN
  IF ~fileResult.success
  THEN [status |-> "failed",
        issues |-> << [id |-> "file-read-error", severity |-> "error", lineNumber |-> {}] >>,
        metadata |-> [filePath |-> cfg.logPath, game |-> cfg.game, linesProcessed |-> 0]]
  ELSE
    LET detectedGame == IF cfg.game # "undefined" THEN cfg.game
                        ELSE detectGame(fileResult.data, fileNameText[cfg.logPath])
        warned == IF detectedGame = "undefined"
                  THEN << [id |-> "game-detection-failed", severity |-> "warning",
                           lineNumber |-> {}] >>
                  ELSE <<>>
        game == IF detectedGame = "undefined" THEN "fallout4" ELSE detectedGame
        scanned == split(fileResult.data)
    IN  [status |-> "completed",
         issues |-> searchPatterns(warned, scanned, 0, game, cfg.maxErrors),
         metadata |-> [filePath |-> cfg.logPath, game |-> game,
                       linesProcessed |-> Len(scanned)]]

scanCrashLog ==
  /\ config # Null
  /\ ret' = [op |-> "scanCrashLog", result |-> scanCrashLogOutcome(config, content)]
  /\ UNCHANGED <<connections, dbs, queryCache, segVars, logVars, disk>>

\* DatabaseManager.clear()
clear ==
  /\ patternDb' = Null
  /\ ret' = [op |-> "clear"]
  /\ UNCHANGED <<connections, dbs, queryCache, segVars, callstackLines, pluginList, config,
                 disk>>

\* The scanned logs, made of lines with no pattern, a game name, two patterns,
\* one pattern
ScanContents ==
  LET ScanLines == {TextLine, <<"f","4","s","e">>,
                    <<"n","u","l","l"," ","p","t","r">>, <<"N","U","L","L">>}
  IN  {joinLines(d, LF) : d \in UNION {[1..n -> ScanLines] : n \in 0..MaxScanLines}}

\* A loaded pattern database: two categories, one entry that is no regular
\* expression, one entry of another game
PatternDbs ==
  { Null,
    [patterns |->
       << << [id |-> "null-access", pattern |-> <<"n","u","l","l">>, severity |-> "error",
              games |-> {"fallout4", "skyrim"}],
             [id |-> "broken", pattern |-> InvalidPattern, severity |-> "info",
              games |-> {"fallout4", "skyrim"}] >>,
          << [id |-> "pointer", pattern |-> <<"p","t","r">>, severity |-> "warning",
              games |-> {"fallout4"}] >> >>] }

ScanConfigs ==
  [logPath : DOMAIN fileNameText,
   game : Games \cup {"undefined"},
   verbose : {FALSE},
   maxErrors : {{}, {0}, {1}, {2}},
   enableFormIdAnalysis : {"undefined", "true", "false"}]

InitScan ==
  /\ connections = [g \in Games |-> NoConn]
  /\ dbs = <<>>
  /\ queryCache = <<>>
  /\ ret = [op |-> "new"]
  /\ lines = <<>>
  /\ iLine = 0
  /\ currentSegment = Null
  /\ segments = <<>>
  /\ pc = "idle"
  /\ callstackLines = <<>>
  /\ pluginList = <<>>
  /\ content \in ScanContents
  /\ config \in ScanConfigs
  /\ patternDb \in PatternDbs
  /\ disk \in {CustomFiles, CustomFiles \cup DOMAIN fileNameText}

NextScan ==
  \/ scanCrashLog
  \/ loadDatabase("main", "fallout4")
  \/ close
  \/ clear

SpecScan == InitScan /\ [][NextScan]_vars

(***************************************************************************)
(* Claims about scanCrashLog.                                              *)
(***************************************************************************)
\* scanCrashLog has returned the result of a completed scan
scanCompleted == ret.op = "scanCrashLog" /\ ret.result.status = "completed"

\* C21: the result of a completed scan carries a formIdAnalysis exactly when
\* enableFormIdAnalysis is not false.
C21_ScanCarriesFormIdAnalysis ==
  scanCompleted =>
    ("formIdAnalysis" \in DOMAIN ret.result <=> config.enableFormIdAnalysis # "false")

\* C30: when maxErrors is set, a completed scan reports at most maxErrors
\* issues.
C30_IssuesWithinMaxErrors ==
  scanCompleted => \A m \in config.maxErrors : Len(ret.result.issues) <= m

(***************************************************************************)
(* Claims about the cache of the lookup store.                             *)
(***************************************************************************)
\* The last call was a lookup whose prepare or query threw inside the try
\* block
lookupThrew == ret.op = "lookupFormId" /\ ret.prepared /\ ret.gets = <<>>

\* The last call was a lookup on an open connection that completed: it was
\* served from the cache or its query returned
lookupCompleted ==
  ret.op = "lookupFormId" /\ hasOpenConnection(ret.game) /\ ~lookupThrew

\* The lookup of the pair would now be served from the cache: it returns the
\* cached outcome without preparing or running a query and leaves the cache
\* as it is
servedFromCache(formId, plugin, game) ==
  LET out == lookupFormIdOutcome(formId, plugin, game) IN
  /\ cacheHas(queryCache, cacheKey(game, plugin, formId))
  /\ out.result = cacheGet(queryCache, cacheKey(game, plugin, formId))
  /\ ~out.prepared
  /\ out.gets = <<>>
  /\ out.cache = queryCache

\* C24: after a lookup on an open connection completes with found or not
\* found, the outcome is cached under (game, module, record index), and the
\* identical lookup repeated while the entry is in the cache and the
\* connection registered returns the same outcome without querying the store
\* and leaves the cache contents and their insertion order unchanged.
C24_CompletedLookupIsCached ==
  /\ lookupCompleted =>
       /\ servedFromCache(ret.formId, ret.plugin, ret.game)
       /\ cacheGet(queryCache, cacheKey(ret.game, ret.plugin, ret.formId)) = ret.result
  /\ \A in \in LookupInputs :
       (hasDatabase(in[2]) /\ cacheHas(queryCache, cacheKey(in[2], in[1].plugin, in[1].formId)))
         => servedFromCache(in[1].formId, in[1].plugin, in[2])

\* A lookup on an open connection was served a cached not-found from a cache
\* that holds other entries as well
C24_Witness ==
  /\ lookupCompleted
  /\ ~ret.prepared
  /\ ret.result = Null
  /\ ret.sizeBefore >= 2
  /\ Len(queryCache) = ret.sizeBefore

\* C25: a lookup whose store query throws returns not found and is cached as
\* a negative result, so that the identical lookup that follows is served
\* from the cache without querying again.
C25_ThrownQueryCachedNegative ==
  lookupThrew =>
    /\ ret.result = Null
    /\ servedFromCache(ret.formId, ret.plugin, ret.game)

RECURSIVE singleLookups(_, _, _)
\* lookupFormId called for each query of the list in list order, from the
\* given cache: the cache left and the stmt.get calls made
singleLookups(cache, queries, game) ==
  IF queries = <<>> THEN [cache |-> cache, gets |-> <<>>]
  ELSE LET first == lookupFormIdFrom(connections, dbs, cache, Head(queries).formId,
                                     Head(queries).plugin, game)
           rest == singleLookups(first.cache, Tail(queries), game)
       IN  [cache |-> rest.cache, gets |-> first.gets \o rest.gets]

\* Lists compared with their single lookups: distinct pairs, a pair twice
MirrorBatches == {<<QExact, QAbsent>>, <<QMod, QMod>>, <<QAbsent, QMod, QAbsent>>}

\* The batch leaves the cache that the single lookups leave
batchCacheMirrors(queries, game) ==
  lookupFormIdBatchOutcome(queries, game).cache = singleLookups(queryCache, queries, game).cache

\* The batch runs the store queries that the single lookups run
batchQueriesMirror(queries, game) ==
  lookupFormIdBatchOutcome(queries, game).gets = singleLookups(queryCache, queries, game).gets

\* C26: on an open connection a batch lookup leaves the cache entries, in the
\* insertion order, that single lookups of its queries in list order leave,
\* and queries the store only for the pairs those lookups query, with
\* duplicates in the list and with the cache at or near its maximum size.
C26_BatchMirrorsSingles ==
  \A queries \in MirrorBatches :
    hasOpenConnection("fallout4") =>
      batchCacheMirrors(queries, "fallout4") /\ batchQueriesMirror(queries, "fallout4")

\* C27: a load that fails returns an error value and leaves the store as it
\* was: the connection that was open for the game is still open, hasDatabase
\* is unchanged, the connections of the other games are unchanged, and the
\* cache is unchanged.
C27_FailedLoadLeavesStore ==
  [][(ret'.op = "loadDatabase" /\ ~ret'.success) =>
       /\ connections' = connections
       /\ dbs' = dbs
       /\ queryCache' = queryCache]_vars

\* The games of the cached entries
cachedGames(cache) == {cache[i].key[1] : i \in 1..Len(cache)}

\* The keys of the cached entries
cachedKeys(cache) == {cache[i].key : i \in 1..Len(cache)}

\* C28: in every reachable state each cached entry belongs to a game with a
\* registered connection; an entry is added only while its game is
\* registered; and a step that removes a connection leaves the cache empty.
C28_CachedGamesRegistered ==
  /\ [](\A g \in cachedGames(queryCache) : hasDatabase(g))
  /\ [][/\ \A key \in cachedKeys(queryCache') \ cachedKeys(queryCache) :
            connections[key[1]] # NoConn
         /\ (\E g \in Games : connections[g] # NoConn /\ connections'[g] = NoConn)
              => queryCache' = <<>>]_vars

\* A load failed for a game that stays registered, with entries in the cache
C28_Witness ==
  /\ ret.op = "loadDatabase"
  /\ ~ret.success
  /\ hasDatabase(ret.game)
  /\ ret.game \in cachedGames(queryCache)
  /\ Len(queryCache) >= 2

(***************************************************************************)
(* Claims about the two entry points of the analyzer.                      *)
(***************************************************************************)
\* The configuration leaves every option at its default
defaultConfig ==
  /\ config.enabled = "undefined"
  /\ config.showFormIdValues = "undefined"
  /\ config.formIdDatabasePaths = <<>>

\* C29: with a connection open for the game and the default configuration,
\* analyzeFormIds and analyzeFormIdsSync return the same match list and the
\* same databaseAvailable for the call stack and the plugin list, a call
\* stack without identifiers included, for which databaseAvailable is true.
C29_AsyncEqualsSync ==
  (defaultConfig /\ hasOpenConnection(config.game)) =>
    LET async == analyzeFormIdsOutcome(callstackLines, pluginList, config).result
        sync == analyzeFormIdsSyncOutcome(callstackLines, pluginList, config.game,
                                          "undefined").result
    IN  /\ async.matches = sync.matches
        /\ async.databaseAvailable = sync.databaseAvailable
        /\ extractFormIds(callstackLines) = <<>> => async.databaseAvailable

====
